---- MODULE Spec2Model ----
(***************************************************************************)
(* Ingestion pipeline of the video preview application:                    *)
(*   VideoProcessor   (backend/src/video_processor.py)                     *)
(*   DatabaseHelper   (src/db_helper.py)                                   *)
(*   YouTubeSource / LocalFileSource / VideoSource (backend/src/*_source)  *)
(* The store is the SQLite table "videos"; the file system is the user's   *)
(* temp_videos directory; network, encoders and disk are the environment,  *)
(* whose outcomes are inputs of each call.                                 *)
(***************************************************************************)
EXTENDS Integers, Sequences, FiniteSets, TLC

VARIABLES
    records,    \* rows of table videos
    nextId,     \* sqlite_sequence of videos: the largest id ever assigned
    dbConn,     \* DatabaseHelper.db_conn is not None
    dirs,       \* what exists under output_dir: the directories, and the
                \* files of the thumbnails directories
    tempFiles,  \* entries of {user}/temp_videos: [name, link]
    last,       \* the call that has just ended, until its caller goes on
    batch       \* the running process_links_file / process_local_directory

vars == <<records, nextId, dbConn, dirs, tempFiles, last, batch>>

----------------------------------------------------------------------------
(* Bounds *)

\* AUTOINCREMENT ids are assigned up to MaxId
MaxId == 4

----------------------------------------------------------------------------
(* Locators, users and what the environment holds for each locator *)

YT1    == "https://youtu.be/aaaaaaaaaaa"
DUAL   == "https://youtu.be/bbbbbbbbbbb.mp4"
LOCAL1 == "/videos/clip.mp4"
FILE1  == "file:///videos/talk.mp4"
YT2    == "https://youtu.be/ccccccccccc"

\* YT1 has the YouTube format only; DUAL has it too and is also the relative
\* path of a video file when that file exists; LOCAL1 is a path only; FILE1
\* is a file:// url
Locators == {YT1, DUAL}
FileLocators == {YT1, FILE1}
AllLocators == Locators \cup {LOCAL1, FILE1}

Usernames == {"", "alice"}

\* youtube_url_checker.is_valid_youtube_url: the two regular expressions
is_valid_youtube_url(url) == url \in {YT1, DUAL, YT2}

\* the format half of LocalFileSource.is_valid_url
HasFilePrefix(url) == url = FILE1
HasVideoExtension(url) == url \in {DUAL, LOCAL1}

\* the title of the video behind YT2, character by character
YT2_TITLE == <<"D", "e", "m", "o", "?">>

\* c.isalnum() or c in ' .-' (YouTube), ' ._-' (local): the characters that
\* stay in a file name
IsSafeChar(c) == c \notin {"?", "/", ":", "!"}

RECURSIVE JoinChars(_)
JoinChars(chars) ==
    IF chars = <<>> THEN "" ELSE chars[1] \o JoinChars(Tail(chars))

\* safe_title = "".join([c for c in video_title if ...])
safe_title(video_title) == JoinChars(SelectSeq(video_title, IsSafeChar))

\* metadata the source reports for a locator; the title is given as the
\* safe_title the file names are made of
Title(source_name, url) ==
    IF url = YT1 THEN "Demo"
    ELSE IF url = YT2 THEN safe_title(YT2_TITLE)
    ELSE IF url = LOCAL1 THEN "clip"
    ELSE IF url = FILE1 THEN "talk"
    ELSE IF source_name = "youtube" THEN "Dual" ELSE "bbbbbbbbbbb"

UploadYear(source_name, url) ==
    IF url = YT1 THEN 2022
    ELSE IF url = YT2 THEN 2023
    ELSE IF url = LOCAL1 THEN 2019
    ELSE IF url = FILE1 THEN 2021
    ELSE IF source_name = "youtube" THEN 2020 ELSE 2018

\* md5 of the first MiB of the fetched bytes: the files at DUAL and FILE1
\* are copies of the video behind YT1, the file at LOCAL1 a copy of the
\* video behind DUAL
Md5Prefix(source_name, url) ==
    IF url = YT1 \/ url = FILE1 THEN "h1"
    ELSE IF url = YT2 THEN "h3"
    ELSE IF url = LOCAL1 THEN "h2"
    ELSE IF source_name = "youtube" THEN "h2" ELSE "h1"

Range(s) == {s[i] : i \in DOMAIN s}

----------------------------------------------------------------------------
(* The environment's answers during one process_url call *)

\* the database during one call: working, refusing writes (every INSERT and
\* DELETE raises), or failing (every statement raises); a fault lasts for
\* the whole call
StoreModes == {"ok", "readonly", "broken"}

EnvDefault ==
    [probe |-> FALSE, exists |-> FALSE, fetch |-> FALSE, symlink |-> FALSE,
     thumb |-> FALSE, readable |-> FALSE, store |-> "ok", mp4 |-> FALSE, gif |-> FALSE,
     dated |-> FALSE]

AllEnvs ==
    [probe : BOOLEAN, exists : BOOLEAN, fetch : BOOLEAN, symlink : BOOLEAN,
     thumb : BOOLEAN, readable : BOOLEAN, store : StoreModes, mp4 : BOOLEAN,
     gif : BOOLEAN, dated : BOOLEAN]

----------------------------------------------------------------------------
(* DatabaseHelper *)

NoInfo ==
    [user |-> "", url |-> "", source |-> "", title |-> "", thumb_path |-> "",
     vid_preview_path |-> "", upload_year |-> 0, content_hash |-> "",
     preview_type |-> ""]

Row(id, video_info) ==
    [id |-> id, user |-> video_info.user, url |-> video_info.url,
     source |-> video_info.source, title |-> video_info.title,
     thumb_path |-> video_info.thumb_path,
     vid_preview_path |-> video_info.vid_preview_path,
     upload_year |-> video_info.upload_year,
     content_hash |-> video_info.content_hash,
     preview_type |-> video_info.preview_type]

InfoOf(row) ==
    [user |-> row.user, url |-> row.url, source |-> row.source,
     title |-> row.title, thumb_path |-> row.thumb_path,
     vid_preview_path |-> row.vid_preview_path, upload_year |-> row.upload_year,
     content_hash |-> row.content_hash, preview_type |-> row.preview_type]

\* is_duplicate without the url query
is_duplicate_hash_only(recs, conn, store, url, content_hash) ==
    IF ~conn THEN FALSE
    ELSE IF store = "broken" THEN FALSE
    ELSE content_hash # "" /\ (\E r \in recs : r.content_hash = content_hash)

\* is_duplicate without the content hash query
is_duplicate_url_only(recs, conn, store, url, content_hash) ==
    IF ~conn THEN FALSE
    ELSE IF store = "broken" THEN FALSE
    ELSE \E r \in recs : r.url = url

\* is_duplicate without the "if content_hash" test
is_duplicate_any_hash(recs, conn, store, url, content_hash) ==
    IF ~conn THEN FALSE
    ELSE IF store = "broken" THEN FALSE
    ELSE \/ \E r \in recs : r.url = url
         \/ \E r \in recs : r.content_hash = content_hash

\* is_duplicate asking for the url and the content hash in one row
is_duplicate_same_row(recs, conn, store, url, content_hash) ==
    IF ~conn THEN FALSE
    ELSE IF store = "broken" THEN FALSE
    ELSE \E r \in recs : r.url = url /\ r.content_hash = content_hash

\* DatabaseHelper.is_duplicate: False without a connection and on any
\* exception; the url first, then the content hash if it is not empty
is_duplicate(recs, conn, store, url, content_hash) ==
    IF ~conn THEN FALSE
    ELSE IF store = "broken" THEN FALSE
    ELSE IF \E r \in recs : r.url = url THEN TRUE
    ELSE IF content_hash # "" /\ (\E r \in recs : r.content_hash = content_hash)
         THEN TRUE
    ELSE FALSE

\* save_to_database with a plain INSERT on a table without the UNIQUE url
save_to_database_insert(recs, seq, conn, store, video_info) ==
    IF ~conn THEN [records |-> recs, nextId |-> seq, id |-> 0]
    ELSE IF store # "ok" THEN [records |-> recs, nextId |-> seq, id |-> 0]
    ELSE [records |-> recs \cup {Row(seq + 1, video_info)},
          nextId  |-> seq + 1,
          id      |-> seq + 1]

\* save_to_database on a table whose id is not AUTOINCREMENT: the new id is
\* one more than the largest id in the table
save_to_database_max_rowid(recs, seq, conn, store, video_info) ==
    IF ~conn THEN [records |-> recs, nextId |-> seq, id |-> 0]
    ELSE IF store # "ok" THEN [records |-> recs, nextId |-> seq, id |-> 0]
    ELSE LET kept == {r \in recs : r.url # video_info.url}
             ids == {0} \cup {r.id : r \in kept}
             rowid == (CHOOSE m \in ids : \A x \in ids : x <= m) + 1
         IN [records |-> kept \cup {Row(rowid, video_info)},
             nextId  |-> seq + 1,
             id      |-> rowid]

\* DatabaseHelper.save_to_database: INSERT OR REPLACE on the UNIQUE url;
\* id 0 stands for the None it returns when nothing was written
save_to_database(recs, seq, conn, store, video_info) ==
    IF ~conn THEN [records |-> recs, nextId |-> seq, id |-> 0]
    ELSE IF store # "ok" THEN [records |-> recs, nextId |-> seq, id |-> 0]
    ELSE [records |-> {r \in recs : r.url # video_info.url}
                          \cup {Row(seq + 1, video_info)},
          nextId  |-> seq + 1,
          id      |-> seq + 1]

\* DatabaseHelper.delete_video: DELETE WHERE id = ?, True iff a row went
delete_video(recs, conn, store, video_id) ==
    IF ~conn THEN [records |-> recs, ok |-> FALSE]
    ELSE IF store # "ok" THEN [records |-> recs, ok |-> FALSE]
    ELSE [records |-> {r \in recs : r.id # video_id},
          ok      |-> \E r \in recs : r.id = video_id]

----------------------------------------------------------------------------
(* Source adapters.  A path that Python holds as None is "" here: the code *)
(* only ever tests these paths for truth.                                  *)

\* VideoProcessor.video_sources in registration order (__init__)
video_sources == <<"youtube", "local">>

\* check_youtube_video_accessible: the format, then the probes of the video
check_youtube_video_accessible(url, env) ==
    is_valid_youtube_url(url) /\ env.probe

\* YouTubeSource.is_valid_url
youtube_is_valid_url(url, env) == check_youtube_video_accessible(url, env)

\* LocalFileSource.is_valid_url
local_is_valid_url(url, env) ==
    HasFilePrefix(url) \/ (env.exists /\ HasVideoExtension(url))

\* src.is_valid_url(url) for the source registered as source_name
is_valid_url(source_name, url, env) ==
    IF source_name = "youtube" THEN youtube_is_valid_url(url, env)
    ELSE local_is_valid_url(url, env)

VideoName(title) == title \o ".mp4"
ThumbName(title) == title \o "_thumbnail.jpg"

FileNames(files) == {f.name : f \in files}
Without(files, name) == {f \in files : f.name # name}
WriteFile(files, name) ==
    Without(files, name) \cup {[name |-> name, link |-> FALSE, target |-> ""]}

NoDownload(files) ==
    [video_path |-> "", thumbnail_path |-> "", thumb_written |-> FALSE,
     title |-> "", upload_year |-> 0, files |-> files]

\* YouTubeSource.download_video: the thumbnail path is returned whether or
\* not download_thumbnail wrote the file; the upload year is None (0) when
\* the video has no publish date
youtube_download_video(url, files, env) ==
    IF ~env.fetch THEN NoDownload(files)
    ELSE LET title  == Title("youtube", url)
             files1 == WriteFile(files, VideoName(title))
             files2 == IF env.thumb THEN WriteFile(files1, ThumbName(title))
                       ELSE files1
         IN  [video_path |-> VideoName(title),
              thumbnail_path |-> ThumbName(title),
              thumb_written |-> env.thumb,
              title |-> title,
              upload_year |-> IF env.dated THEN UploadYear("youtube", url) ELSE 0,
              files |-> files2]

\* LocalFileSource.download_video: an entry of another file under the output
\* name is removed, then a symlink is made, or a copy when the link fails
\* (also when the name is still taken by a link to this very file)
local_download_video(url, files, env) ==
    IF ~env.fetch THEN NoDownload(files)
    ELSE LET title  == Title("local", url)
             name   == VideoName(title)
             same   == \E f \in files : f.name = name /\ f.link /\ f.target = url
             files1 == IF name \in FileNames(files) /\ ~same
                       THEN Without(files, name) ELSE files
             files2 == IF env.symlink /\ name \notin FileNames(files1)
                       THEN files1 \cup {[name |-> name, link |-> TRUE, target |-> url]}
                       ELSE IF name \in FileNames(files1) THEN files1
                       ELSE WriteFile(files1, name)
             files3 == IF env.thumb THEN WriteFile(files2, ThumbName(title))
                       ELSE files2
         IN  [video_path |-> name,
              thumbnail_path |-> IF env.thumb THEN ThumbName(title) ELSE "",
              thumb_written |-> env.thumb,
              title |-> title, upload_year |-> UploadYear("local", url),
              files |-> files3]

\* os.path.islink of the video path a download returned
IsLink(dl) == \E f \in dl.files : f.name = dl.video_path /\ f.link

download_video(source_name, url, files, env) ==
    IF source_name = "youtube" THEN youtube_download_video(url, files, env)
    ELSE local_download_video(url, files, env)

\* VideoSource.generate_content_hash: "" when the file cannot be read
generate_content_hash(source_name, url, env) ==
    IF env.readable THEN Md5Prefix(source_name, url) ELSE ""

\* VideoPreviewCreator.create_mp4_preview / create_gif_preview as seen by the
\* caller: the path written under previews, or "" for None
create_mp4_preview(video_path, title, env) ==
    IF env.mp4 THEN title \o "_preview.mp4" ELSE ""
create_gif_preview(video_path, title, env) ==
    IF env.gif THEN title \o ".gif" ELSE ""

----------------------------------------------------------------------------
(* VideoProcessor *)

\* what a call did: the sources that accept its locator, the calls it made
\* in order and what they answered, whether the fetched temp entry is a
\* symbolic link, the database as the call met it ("n/a"
\* when it never asked), whether the table held the url when a database call
\* began, and how it ended ("record", "None" or "raised"; "True" or "False"
\* for delete_video)
NoCall ==
    [op |-> "none", url |-> "", user |-> "", valid |-> {}, source |-> "",
     steps |-> <<>>, db |-> "n/a", had_url |-> FALSE, fetched |-> FALSE,
     linked |-> FALSE,
     thumb_written |-> FALSE, content_hash |-> "",
     dup |-> FALSE, mp4_path |-> "", gif_path |-> "", row_id |-> 0,
     outcome |-> "None", info |-> NoInfo]

ValidSources(url, env) ==
    {video_sources[i] : i \in {j \in DOMAIN video_sources :
                                   is_valid_url(video_sources[j], url, env)}}

\* the database as a call meets it: closed (db_conn is None), broken (every
\* statement raises), readonly (writes raise; seen only by a call that writes)
DbSeen(conn, store, writes) ==
    IF ~conn THEN "closed"
    ELSE IF store = "broken" THEN "broken"
    ELSE IF store = "readonly" /\ writes THEN "readonly"
    ELSE "ok"

\* the path under output_dir of a file of the user's thumbnails directory
InThumbnails(username, name) == username \o "/thumbnails/" \o name

\* VideoProcessor.ensure_user_directories
UserDirs(username) ==
    {username, username \o "/temp_videos", username \o "/thumbnails",
     username \o "/previews"}

\* the loop over video_sources.items() taking the last valid source
FirstValid_last(url, env) ==
    IF is_valid_url(video_sources[2], url, env) THEN 2
    ELSE IF is_valid_url(video_sources[1], url, env) THEN 1
    ELSE 0

\* the loop over video_sources.items(): every source consulted up to and
\* including the first valid one
FirstValid(url, env) ==
    IF is_valid_url(video_sources[1], url, env) THEN 1
    ELSE IF is_valid_url(video_sources[2], url, env) THEN 2
    ELSE 0

Consulted(url, env) ==
    LET k == FirstValid(url, env)
        n == IF k = 0 THEN Len(video_sources) ELSE k
    IN  [i \in 1..n |-> "is_valid_url:" \o video_sources[i]]

\* VideoProcessor.process_url on the state st = [records, nextId, dbConn,
\* dirs, files]; the result carries the new state and the call's record.
\* The function is written as its stages, each handing on what the code has
\* in its local variables at that point.

\* a return (or a raise) of process_url
Ended(st, dirs1, files, call) ==
    [records |-> st.records, nextId |-> st.nextId, dirs |-> dirs1,
     files |-> files, call |-> call]

\* "Clean up" removing the temp entry of the video whatever it is
cleanup_video_always(files, source_name, video_path) ==
    Without(files, video_path)

\* "Clean up": os.remove of the temp entry of the video unless the source is
\* local and the entry is a symbolic link
cleanup_video(files, source_name, video_path) ==
    IF source_name # "local" \/ ~(\E f \in files : f.name = video_path /\ f.link)
    THEN Without(files, video_path) ELSE files

\* process_url returning None when save_to_database returned None
process_url_save_checked(st, dirs1, files, env, video_info, call) ==
    LET result(saved) ==
            [records |-> saved.records, nextId |-> saved.nextId,
             dirs |-> dirs1, files |-> files,
             call |-> [call EXCEPT !.steps = @ \o <<"save_to_database">>,
                                   !.db = DbSeen(st.dbConn, env.store, TRUE),
                                   !.row_id = saved.id,
                                   !.outcome = IF saved.id = 0 THEN "None" ELSE "record",
                                   !.info = IF saved.id = 0 THEN NoInfo ELSE video_info]]
    IN  result(save_to_database(st.records, st.nextId, st.dbConn, env.store,
                                video_info))

\* "Prepare video info" and "Save to database": the record is returned
\* whatever save_to_database returned
process_url_save(st, dirs1, files, env, video_info, call) ==
    \* the one value of save_to_database, bound once
    LET result(saved) ==
            [records |-> saved.records, nextId |-> saved.nextId,
             dirs |-> dirs1, files |-> files,
             call |-> [call EXCEPT !.steps = @ \o <<"save_to_database">>,
                                   !.db = DbSeen(st.dbConn, env.store, TRUE),
                                   !.row_id = saved.id,
                                   !.outcome = "record",
                                   !.info = video_info]]
    IN  result(save_to_database(st.records, st.nextId, st.dbConn, env.store,
                                video_info))

\* process_url preferring the GIF to the MP4 clip
process_url_finish_gif_first(st, url, username, env, source_name, dl, content_hash, mp4_path, gif_path, call) ==
    IF dl.thumbnail_path # "" /\ dl.thumbnail_path \notin FileNames(dl.files)
    THEN \* os.rename of a file that is not there raises out of process_url
         Ended(st, st.dirs \cup UserDirs(username), dl.files,
               [call EXCEPT !.outcome = "raised",
                            !.steps = @ \o <<"rename_thumbnail">>])
    ELSE
    LET files1 == IF dl.thumbnail_path # "" THEN Without(dl.files, dl.thumbnail_path)
                  ELSE dl.files
        files2 == cleanup_video(files1, source_name, dl.video_path)
        preview_path == IF gif_path # "" THEN gif_path ELSE mp4_path
        call5 == [call EXCEPT !.steps = @ \o (IF dl.thumbnail_path # ""
                                              THEN <<"rename_thumbnail">> ELSE <<>>)]
        \* os.rename puts the thumbnail into the thumbnails directory
        dirs2 == st.dirs \cup UserDirs(username)
                   \cup (IF dl.thumbnail_path # ""
                         THEN {InThumbnails(username, dl.thumbnail_path)} ELSE {})
    IN
    IF preview_path = ""
    THEN Ended(st, dirs2, files2, call5)
    ELSE process_url_save(st, dirs2, files2, env,
            [user |-> username, url |-> url, source |-> source_name,
             title |-> dl.title,
             thumb_path |-> IF dl.thumbnail_path # ""
                            THEN InThumbnails(username, dl.thumbnail_path)
                            ELSE "",
             vid_preview_path |-> username \o "/previews/" \o preview_path,
             upload_year |-> dl.upload_year,
             content_hash |-> content_hash,
             preview_type |-> IF gif_path # "" THEN "gif" ELSE "mp4"],
            call5)

\* "Move thumbnail", "Clean up" and the test of the preview paths
process_url_finish(st, url, username, env, source_name, dl, content_hash, mp4_path, gif_path, call) ==
    IF dl.thumbnail_path # "" /\ dl.thumbnail_path \notin FileNames(dl.files)
    THEN \* os.rename of a file that is not there raises out of process_url
         Ended(st, st.dirs \cup UserDirs(username), dl.files,
               [call EXCEPT !.outcome = "raised",
                            !.steps = @ \o <<"rename_thumbnail">>])
    ELSE
    LET files1 == IF dl.thumbnail_path # "" THEN Without(dl.files, dl.thumbnail_path)
                  ELSE dl.files
        files2 == cleanup_video(files1, source_name, dl.video_path)
        preview_path == IF mp4_path # "" THEN mp4_path ELSE gif_path
        call5 == [call EXCEPT !.steps = @ \o (IF dl.thumbnail_path # ""
                                              THEN <<"rename_thumbnail">> ELSE <<>>)]
        \* os.rename puts the thumbnail into the thumbnails directory
        dirs2 == st.dirs \cup UserDirs(username)
                   \cup (IF dl.thumbnail_path # ""
                         THEN {InThumbnails(username, dl.thumbnail_path)} ELSE {})
    IN
    IF preview_path = ""
    THEN Ended(st, dirs2, files2, call5)
    ELSE process_url_save(st, dirs2, files2, env,
            [user |-> username, url |-> url, source |-> source_name,
             title |-> dl.title,
             thumb_path |-> IF dl.thumbnail_path # ""
                            THEN InThumbnails(username, dl.thumbnail_path)
                            ELSE "",
             vid_preview_path |-> username \o "/previews/" \o preview_path,
             upload_year |-> dl.upload_year,
             content_hash |-> content_hash,
             preview_type |-> IF mp4_path # "" THEN "mp4" ELSE "gif"],
            call5)

\* process_url running the encoders before it looks at the duplicate check
process_url_previews_encode_first(st, url, username, env, source_name, dl, content_hash, dup, call) ==
    IF dup
    THEN Ended(st, st.dirs \cup UserDirs(username),
               Without(Without(dl.files, dl.video_path), dl.thumbnail_path),
               [call EXCEPT !.mp4_path = create_mp4_preview(dl.video_path, dl.title, env),
                            !.gif_path = create_gif_preview(dl.video_path, dl.title, env),
                            !.steps = @ \o <<"create_mp4_preview", "create_gif_preview">>])
    ELSE process_url_finish(st, url, username, env, source_name, dl, content_hash,
            create_mp4_preview(dl.video_path, dl.title, env),
            create_gif_preview(dl.video_path, dl.title, env),
            [call EXCEPT !.mp4_path = create_mp4_preview(dl.video_path, dl.title, env),
                         !.gif_path = create_gif_preview(dl.video_path, dl.title, env),
                         !.steps = @ \o <<"create_mp4_preview", "create_gif_preview">>])

\* process_url returning at a duplicate without removing the fetched files
process_url_previews_keep(st, url, username, env, source_name, dl, content_hash, dup, call) ==
    IF dup
    THEN Ended(st, st.dirs \cup UserDirs(username), dl.files, call)
    ELSE process_url_finish(st, url, username, env, source_name, dl, content_hash,
            create_mp4_preview(dl.video_path, dl.title, env),
            create_gif_preview(dl.video_path, dl.title, env),
            [call EXCEPT !.mp4_path = create_mp4_preview(dl.video_path, dl.title, env),
                         !.gif_path = create_gif_preview(dl.video_path, dl.title, env),
                         !.steps = @ \o <<"create_mp4_preview", "create_gif_preview">>])

\* "Check for duplicates", then "Create MP4 preview" and "Create GIF preview"
process_url_previews(st, url, username, env, source_name, dl, content_hash, dup, call) ==
    IF dup
    THEN \* both downloaded files are removed if they exist
         Ended(st, st.dirs \cup UserDirs(username),
               Without(Without(dl.files, dl.video_path), dl.thumbnail_path),
               call)
    ELSE process_url_finish(st, url, username, env, source_name, dl, content_hash,
            create_mp4_preview(dl.video_path, dl.title, env),
            create_gif_preview(dl.video_path, dl.title, env),
            [call EXCEPT !.mp4_path = create_mp4_preview(dl.video_path, dl.title, env),
                         !.gif_path = create_gif_preview(dl.video_path, dl.title, env),
                         !.steps = @ \o <<"create_mp4_preview", "create_gif_preview">>])

\* "Generate content hash" and the duplicate query
process_url_dedup(st, url, username, env, source_name, dl, content_hash, call) ==
    process_url_previews(st, url, username, env, source_name, dl, content_hash,
        is_duplicate(st.records, st.dbConn, env.store, url, content_hash),
        [call EXCEPT !.thumb_written = dl.thumb_written,
                     !.content_hash = content_hash,
                     !.dup = is_duplicate(st.records, st.dbConn, env.store, url,
                                          content_hash),
                     !.db = DbSeen(st.dbConn, env.store, FALSE),
                     !.steps = @ \o <<"generate_content_hash", "is_duplicate">>])

\* process_url without the test of video_path
process_url_download_unchecked(st, url, username, env, source_name, dl, call) ==
    process_url_dedup(st, url, username, env, source_name, dl,
                      generate_content_hash(source_name, url, env), call)

\* "Download the video" with the source that was selected
process_url_download(st, url, username, env, source_name, dl, call) ==
    IF dl.video_path = ""
    THEN Ended(st, st.dirs \cup UserDirs(username), dl.files, call)
    ELSE process_url_dedup(st, url, username, env, source_name, dl,
                           generate_content_hash(source_name, url, env), call)

\* "Determine the source type": k is the index of the selected source, 0
\* when no source accepts the url
process_url_source(st, url, username, env, k, call) ==
    IF k = 0 THEN Ended(st, st.dirs \cup UserDirs(username), st.files, call)
    ELSE process_url_download(st, url, username, env, video_sources[k],
            download_video(video_sources[k], url, st.files, env),
            [call EXCEPT !.source = video_sources[k],
                         !.fetched = download_video(video_sources[k], url, st.files,
                                                    env).video_path # "",
                         !.linked = IsLink(download_video(video_sources[k], url,
                                                          st.files, env)),
                         !.steps = @ \o <<"download_video">>])

\* process_url without the test of the username
process_url_any_username(st, url, username, env) ==
    process_url_source(st, url, username, env, FirstValid(url, env),
        [NoCall EXCEPT !.op = "process_url", !.url = url, !.user = username,
                       !.steps = Consulted(url, env),
                       !.valid = ValidSources(url, env)])

\* VideoProcessor.process_url
process_url(st, url, username, env) ==
    IF username = ""
    THEN Ended(st, st.dirs, st.files,
               [NoCall EXCEPT !.op = "process_url", !.url = url, !.user = username])
    ELSE process_url_source(st, url, username, env, FirstValid(url, env),
            [NoCall EXCEPT !.op = "process_url", !.url = url, !.user = username,
                           !.steps = Consulted(url, env),
                           !.valid = ValidSources(url, env)])

----------------------------------------------------------------------------
(* The answers a call can consume for a locator: an answer the call never  *)
(* asks for is left at its default.  The YouTube videos these calls fetch   *)
(* have a publish date; SpecFetch has videos without one as well.          *)

Consumes(url, e) ==
    LET k == FirstValid(url, e) IN
    /\ ~is_valid_youtube_url(url) => ~e.probe
    /\ (HasFilePrefix(url) \/ ~HasVideoExtension(url)) => ~e.exists
    /\ k = 0 => ~e.fetch
    /\ (k = 0 \/ video_sources[k] # "local" \/ ~e.fetch) => ~e.symlink
    /\ e.dated <=> (k # 0 /\ video_sources[k] = "youtube" /\ e.fetch)
    /\ ~e.fetch => /\ ~e.thumb /\ ~e.readable /\ ~e.mp4 /\ ~e.gif
                   /\ e.store = "ok"

EnvsOf == [url \in AllLocators |-> {e \in AllEnvs : Consumes(url, e)}]

----------------------------------------------------------------------------
(* State machine *)

\* a batch call: its items (the lines of the links file, the video files
\* found in the directory), the position of its loop, the locators it has
\* handed to process_url, those that came back with a record, and its list
\* of results; entered is whether the call got as far as its loop
NoBatch ==
    [kind |-> "none", status |-> "idle", user |-> "", entered |-> FALSE,
     items |-> <<>>, pos |-> 1, submitted |-> <<>>, succeeded |-> <<>>,
     results |-> <<>>]

\* after VideoProcessor.__init__: an empty output directory; the connection
\* is None when init_database failed
Init ==
    /\ records = {}
    /\ nextId = 0
    /\ dbConn \in BOOLEAN
    /\ dirs = {}
    /\ tempFiles = {}
    /\ last = NoCall
    /\ batch = NoBatch

State == [records |-> records, nextId |-> nextId, dbConn |-> dbConn,
          dirs |-> dirs, files |-> tempFiles]

\* one call of VideoProcessor.process_url
ProcessUrl ==
    /\ batch.status = "idle"
    /\ last.op = "none"
    /\ nextId < MaxId
    /\ \E url \in Locators, username \in Usernames :
         \E env \in EnvsOf[url] :
            \E out \in {process_url(State, url, username, env)} :
            /\ records' = out.records
            /\ nextId' = out.nextId
            /\ dirs' = out.dirs
            /\ tempFiles' = out.files
            /\ last' = out.call
    /\ UNCHANGED <<dbConn, batch>>

\* VideoProcessor.close / DatabaseHelper.close
Close ==
    /\ batch.status = "idle"
    /\ last.op = "none"
    /\ dbConn
    /\ dbConn' = FALSE
    /\ UNCHANGED <<records, nextId, dirs, tempFiles, last, batch>>

\* the caller has the result and goes on: the call's record is dropped
Resume ==
    /\ batch.status = "idle"
    /\ last.op # "none"
    /\ last' = NoCall
    /\ UNCHANGED <<records, nextId, dbConn, dirs, tempFiles, batch>>

Next == ProcessUrl \/ Close \/ Resume

Spec == Init /\ [][Next]_vars

\* one call of VideoProcessor.process_url with a YouTube url or a file:// url
ProcessUrlFile ==
    /\ batch.status = "idle"
    /\ last.op = "none"
    /\ nextId < MaxId
    /\ \E url \in FileLocators, username \in Usernames :
         \E env \in EnvsOf[url] :
            \E out \in {process_url(State, url, username, env)} :
            /\ records' = out.records
            /\ nextId' = out.nextId
            /\ dirs' = out.dirs
            /\ tempFiles' = out.files
            /\ last' = out.call
    /\ UNCHANGED <<dbConn, batch>>

NextFile == ProcessUrlFile \/ Close \/ Resume

SpecFile == Init /\ [][NextFile]_vars

----------------------------------------------------------------------------
(* DatabaseHelper called directly *)

\* the locators of direct database calls
DbUrls == AllLocators

\* video_info dictionaries handed to save_to_database
SaveInputs ==
    {[NoInfo EXCEPT !.user = "alice", !.url = url, !.source = "youtube",
                    !.title = "Demo", !.upload_year = 2022,
                    !.vid_preview_path = "alice/previews/Demo_preview.mp4",
                    !.preview_type = "mp4", !.content_hash = h]
       : url \in {YT1, DUAL}, h \in {"", "h1"}}

SaveToDatabase ==
    /\ batch.status = "idle"
    /\ last.op = "none"
    /\ nextId < MaxId
    /\ \E video_info \in SaveInputs, store \in StoreModes :
         LET saved == save_to_database(records, nextId, dbConn, store, video_info) IN
         /\ records' = saved.records
         /\ nextId' = saved.nextId
         /\ last' = [NoCall EXCEPT !.op = "save_to_database",
                                   !.url = video_info.url,
                                   !.info = video_info,
                                   !.had_url = \E r \in records : r.url = video_info.url,
                                   !.db = DbSeen(dbConn, store, TRUE),
                                   !.row_id = saved.id]
    /\ UNCHANGED <<dbConn, dirs, tempFiles, batch>>

DeleteVideo ==
    /\ batch.status = "idle"
    /\ last.op = "none"
    /\ \E video_id \in 1..MaxId, store \in StoreModes :
         LET deleted == delete_video(records, dbConn, store, video_id) IN
         /\ records' = deleted.records
         /\ last' = [NoCall EXCEPT !.op = "delete_video",
                                   !.row_id = video_id,
                                   !.db = DbSeen(dbConn, store, TRUE),
                                   !.outcome = IF deleted.ok THEN "True" ELSE "False"]
    /\ UNCHANGED <<nextId, dbConn, dirs, tempFiles, batch>>

IsDuplicate ==
    /\ batch.status = "idle"
    /\ last.op = "none"
    /\ \E url \in DbUrls, content_hash \in {"", "h1", "h2"}, store \in StoreModes :
         last' = [NoCall EXCEPT !.op = "is_duplicate",
                                !.url = url,
                                !.content_hash = content_hash,
                                !.had_url = \E r \in records : r.url = url,
                                !.db = DbSeen(dbConn, store, FALSE),
                                !.dup = is_duplicate(records, dbConn, store, url, content_hash)]
    /\ UNCHANGED <<records, nextId, dbConn, dirs, tempFiles, batch>>

NextDb == SaveToDatabase \/ DeleteVideo \/ IsDuplicate \/ Close \/ Resume

SpecDb == Init /\ [][NextDb]_vars

----------------------------------------------------------------------------
(* Batches: process_links_file and process_local_directory.  A batch is a   *)
(* loop of process_url calls; nothing else runs on the processor while it   *)
(* is in its loop.  A behaviour of SpecBatch is one batch on a new          *)
(* processor.                                                               *)

\* a batch has at most MaxItems items
MaxItems == 2

COMMENT == "# my links"

\* lines of a links file, stripped
Lines == {YT1, LOCAL1, COMMENT}

\* url.startswith(("http", "file://", "/")) on a line that is not empty
LineAccepted(line) == line \in {YT1, DUAL, LOCAL1}

\* paths that os.walk of a directory yields with one of video_extensions;
\* DUAL is the file bbbbbbbbbbb.mp4 found under a directory given as
\* "https://youtu.be"
VideoFiles == {DUAL, LOCAL1}

SeqsUpTo(S, n) == UNION {[1..k -> S] : k \in 0..n}

\* the lists os.walk can give: every file of the directory once
WalkOrders(S, n) ==
    {q \in SeqsUpTo(S, n) : \A i, j \in DOMAIN q : i # j => q[i] # q[j]}

\* the loop body shared by both batches: one process_url call, its result
\* appended when it is a record
Submit(b, out) ==
    [b EXCEPT !.pos = @ + 1,
              !.submitted = Append(@, out.call.url),
              !.succeeded = IF out.call.outcome = "record"
                            THEN Append(@, out.call.url) ELSE @,
              !.results = IF out.call.outcome = "record"
                          THEN Append(@, out.call.info) ELSE @]

\* process_links_file up to its loop: [] at once without a username; a file
\* that cannot be opened has no lines to give
ProcessLinksFile ==
    /\ batch.status = "idle"
    /\ last.op = "none"
    /\ \E username \in Usernames, lines \in SeqsUpTo(Lines, MaxItems),
          opened \in BOOLEAN :
         batch' = IF username = ""
                  THEN [NoBatch EXCEPT !.kind = "process_links_file",
                                       !.status = "returned", !.items = lines]
                  ELSE [NoBatch EXCEPT !.kind = "process_links_file",
                                       !.status = "running", !.user = username,
                                       !.entered = opened,
                                       !.items = IF opened THEN lines ELSE <<>>]
    /\ UNCHANGED <<records, nextId, dbConn, dirs, tempFiles, last>>

\* one line of the links file: skipped when it is not a url or path, else
\* handed to process_url; an exception of process_url leaves the loop through
\* the try block around it
LinksFileLine ==
    /\ batch.kind = "process_links_file"
    /\ batch.status = "running"
    /\ batch.pos <= Len(batch.items)
    /\ LET url == batch.items[batch.pos] IN
       IF ~LineAccepted(url)
       THEN /\ batch' = [batch EXCEPT !.pos = @ + 1]
            /\ UNCHANGED <<records, nextId, dirs, tempFiles, last>>
       ELSE \E env \in EnvsOf[url] :
              \E out \in {process_url(State, url, batch.user, env)} :
              /\ records' = out.records
              /\ nextId' = out.nextId
              /\ dirs' = out.dirs
              /\ tempFiles' = out.files
              /\ last' = out.call
              /\ batch' = IF out.call.outcome = "raised"
                          THEN [batch EXCEPT !.pos = Len(batch.items) + 1,
                                             !.submitted = Append(@, url)]
                          ELSE Submit(batch, out)
    /\ UNCHANGED dbConn

\* after the loop: temp_videos is removed when it is there and empty, and
\* the results are returned
LinksFileReturn ==
    /\ batch.kind = "process_links_file"
    /\ batch.status = "running"
    /\ batch.pos > Len(batch.items)
    /\ LET temp_dir == batch.user \o "/temp_videos" IN
       dirs' = IF temp_dir \in dirs /\ tempFiles = {} THEN dirs \ {temp_dir}
               ELSE dirs
    /\ batch' = [batch EXCEPT !.status = "returned"]
    /\ UNCHANGED <<records, nextId, dbConn, tempFiles, last>>

\* process_local_directory up to its loop: [] at once when the directory is
\* not one, else the walk collects the video files
ProcessLocalDirectory ==
    /\ batch.status = "idle"
    /\ last.op = "none"
    /\ \E username \in Usernames, video_files \in WalkOrders(VideoFiles, MaxItems),
          isdir \in BOOLEAN :
         batch' = IF ~isdir
                  THEN [NoBatch EXCEPT !.kind = "process_local_directory",
                                       !.status = "returned", !.user = username]
                  ELSE [NoBatch EXCEPT !.kind = "process_local_directory",
                                       !.status = "running", !.user = username,
                                       !.entered = TRUE, !.items = video_files]
    /\ UNCHANGED <<records, nextId, dbConn, dirs, tempFiles, last>>

\* one video file of the directory: an exception of process_url leaves
\* process_local_directory, nothing catches it
DirectoryFile ==
    /\ batch.kind = "process_local_directory"
    /\ batch.status = "running"
    /\ batch.pos <= Len(batch.items)
    /\ LET video_file == batch.items[batch.pos] IN
       \E env \in EnvsOf[video_file] :
          \E out \in {process_url(State, video_file, batch.user, env)} :
          /\ records' = out.records
          /\ nextId' = out.nextId
          /\ dirs' = out.dirs
          /\ tempFiles' = out.files
          /\ last' = out.call
          /\ batch' = IF out.call.outcome = "raised"
                      THEN [batch EXCEPT !.status = "raised",
                                         !.submitted = Append(@, video_file)]
                      ELSE Submit(batch, out)
    /\ UNCHANGED dbConn

DirectoryReturn ==
    /\ batch.kind = "process_local_directory"
    /\ batch.status = "running"
    /\ batch.pos > Len(batch.items)
    /\ batch' = [batch EXCEPT !.status = "returned"]
    /\ UNCHANGED <<records, nextId, dbConn, dirs, tempFiles, last>>

NextBatch ==
    \/ ProcessLinksFile \/ LinksFileLine \/ LinksFileReturn
    \/ ProcessLocalDirectory \/ DirectoryFile \/ DirectoryReturn

SpecBatch == Init /\ [][NextBatch]_vars

----------------------------------------------------------------------------
(* Properties of process_url *)

HasUrl(recs, url) == \E r \in recs : r.url = url

Called(call, step) == step \in Range(call.steps)

Ingestion == last.op = "process_url" /\ last.user # ""

\* is_duplicate was answered by the table, not by "return False" for a missing
\* connection or an exception
DupAnswered(call) == Called(call, "is_duplicate") /\ call.db \notin {"closed", "broken"}

\* C1: a record for a locator exists in the store if and only if an ingestion
\* of that locator completed with a non-null preview path: after each
\* process_url call the locator has a record exactly if it had one before or
\* this call completed with a preview
C1_RecordIffCompleted ==
    [][last'.op = "process_url" =>
         (HasUrl(records', last'.url)
            <=> (HasUrl(records, last'.url) \/ last'.outcome = "record"))]_vars

NoSharedHash ==
    \A r1, r2 \in records :
        (r1 # r2 /\ r1.content_hash # "") => r1.content_hash # r2.content_hash

Encoding == Ingestion /\ Called(last, "is_duplicate") /\ ~last.dup

\* C7: once a source is selected, the fetch returned a video path and the
\* duplicate check was negative, process_url returns a record with a
\* non-empty vid_preview_path if one of the two previews succeeded, and
\* returns None without calling save_to_database if both failed
C7_AbortsOnlyIfBothPreviewsFail ==
    Encoding =>
        IF last.mp4_path # "" \/ last.gif_path # ""
        THEN last.outcome = "record" /\ last.info.vid_preview_path # ""
        ELSE last.outcome = "None" /\ ~Called(last, "save_to_database")

\* C8: for every source kind, when the fetch succeeded, no thumbnail was
\* written and one of the previews succeeded, process_url does not raise and
\* returns (and, when the write goes through, stores) a record whose
\* thumb_path is empty
C8_ThumbnailFailureNeverAborts ==
    (/\ Encoding
     /\ ~last.thumb_written
     /\ (last.mp4_path # "" \/ last.gif_path # ""))
    => /\ last.outcome = "record"
       /\ last.info.thumb_path = ""
       /\ last.row_id # 0 =>
            \E r \in records : r.id = last.row_id /\ r.thumb_path = ""

\* the first source of video_sources that accepts the locator, "" if none
FirstAccepting(valid) ==
    IF video_sources[1] \in valid THEN video_sources[1]
    ELSE IF video_sources[2] \in valid THEN video_sources[2]
    ELSE ""

\* C10: process_url consults the sources in registration order (youtube, then
\* local) up to the first that accepts the locator and uses that one, and a
\* returned record names it; when none accepts, it returns None without
\* download_video, the encoders or save_to_database
C10_SourceSelection ==
    Ingestion =>
        /\ last.source = FirstAccepting(last.valid)
        /\ last.outcome = "record" => last.info.source = FirstAccepting(last.valid)
        /\ "youtube" \in last.valid => ~Called(last, "is_valid_url:local")
        /\ last.steps # <<>> /\ last.steps[1] = "is_valid_url:youtube"
        /\ "youtube" \notin last.valid =>
             Len(last.steps) >= 2 /\ last.steps[2] = "is_valid_url:local"
        /\ last.valid = {} =>
             /\ last.outcome = "None"
             /\ last.steps = <<"is_valid_url:youtube", "is_valid_url:local">>

\* a locator both sources accept was ingested through the first, youtube
C10_Witness ==
    /\ Ingestion /\ last.valid = {"youtube", "local"}
    /\ last.outcome = "record" /\ last.info.source = "youtube"
    /\ HasUrl(records, last.url)

----------------------------------------------------------------------------
(* Properties of DatabaseHelper *)

HasHash(recs, content_hash) == \E r \in recs : r.content_hash = content_hash

\* C4: is_duplicate(locator, "") is true only if a stored record has exactly
\* that locator, whatever the table holds, records with an empty content_hash
\* included
C4_EmptyFingerprintNeverMatches ==
    (last.op = "is_duplicate" /\ last.content_hash = "" /\ last.dup)
        => HasUrl(records, last.url)

\* two records with an empty content_hash are stored and is_duplicate of a
\* third locator with an empty fingerprint said False
C4_Witness ==
    /\ last.op = "is_duplicate" /\ last.content_hash = "" /\ last.db = "ok"
    /\ Cardinality({r \in records : r.content_hash = ""}) >= 2
    /\ ~HasUrl(records, last.url)
    /\ ~last.dup

UniqueUrl == \A r1, r2 \in records : r1.url = r2.url => r1 = r2

\* C6: the table holds at most one record per url; a save_to_database on a
\* working database of a url that is stored returns an id, leaves the number
\* of records unchanged, makes the url's record carry the saved values and
\* leaves the records of other urls unchanged
C6_LocatorUniqueUnderSave ==
    /\ []UniqueUrl
    /\ [][(/\ last'.op = "save_to_database"
           /\ last'.db = "ok"
           /\ HasUrl(records, last'.url))
          => /\ last'.row_id # 0
             /\ Cardinality(records') = Cardinality(records)
             /\ \E r \in records' : r.url = last'.url /\ InfoOf(r) = last'.info
             /\ \A r \in records \cup records' :
                    r.url # last'.url => r \in records \cap records']_vars

\* a save replaced the record of its url by one with other values, beside a
\* record of another url
C6_Witness ==
    /\ last.op = "save_to_database" /\ last.had_url /\ last.row_id # 0
    /\ last.row_id > Cardinality(records)
    /\ \E r \in records : r.url # last.url
    /\ \E r \in records : r.url = last.url /\ r.id = last.row_id

----------------------------------------------------------------------------
(* Properties of the batches *)

\* the items of a batch that are urls or paths, in order
Accepted(b) ==
    IF b.kind = "process_links_file" THEN SelectSeq(b.items, LineAccepted)
    ELSE b.items

\* C9: a batch that entered its loop ends by returning its list, having
\* handed every item to process_url once and in order, whatever failed in an
\* earlier item; the list holds the records of the items that succeeded
C9_FailingItemNeverAbortsBatch ==
    (batch.status \in {"returned", "raised"} /\ batch.entered)
        => /\ batch.status = "returned"
           /\ batch.submitted = Accepted(batch)
           /\ Len(batch.results) = Len(batch.succeeded)
           /\ \A i \in DOMAIN batch.results :
                  batch.results[i].url = batch.succeeded[i]

----------------------------------------------------------------------------
(* Properties of the steps of process_url *)

\* the selected source's download_video gave no video path
FetchFailed(call) == Called(call, "download_video") /\ ~call.fetched

\* C11: when the selected source's download_video yields no video path (a
\* file:// url that passed validation and is not there included),
\* process_url returns None after that step: no content hash, no duplicate
\* query, no encoder, no save_to_database, and the table is as it was
C11_FetchFailure ==
    [][(last'.op = "process_url" /\ FetchFailed(last'))
       => /\ last'.outcome = "None"
          /\ last'.steps[Len(last'.steps)] = "download_video"
          /\ ~Called(last', "generate_content_hash")
          /\ ~Called(last', "is_duplicate")
          /\ ~Called(last', "create_mp4_preview")
          /\ ~Called(last', "create_gif_preview")
          /\ ~Called(last', "save_to_database")
          /\ last'.db = "n/a"
          /\ records' = records /\ nextId' = nextId]_vars

\* a file:// url was accepted by the local source alone and its file was
\* not found, with records in the table
C11_Witness ==
    /\ Ingestion /\ FetchFailed(last)
    /\ last.url = FILE1 /\ last.valid = {"local"} /\ last.source = "local"
    /\ records # {}

\* the names download_video gave the call's video and thumbnail in temp_videos
TempVideo(call) == VideoName(Title(call.source, call.url))
TempThumb(call) == ThumbName(Title(call.source, call.url))

Before(call, a, b) ==
    \A i, j \in DOMAIN call.steps :
        (call.steps[i] = a /\ call.steps[j] = b) => i < j

\* the path under output_dir of a file of the user's previews directory
InPreviews(call, path) == call.user \o "/previews/" \o path

\* C13: a returned record has preview_type "mp4" and the MP4 clip as
\* vid_preview_path whenever create_mp4_preview succeeded, and preview_type
\* "gif" with the GIF exactly when the MP4 failed and the GIF succeeded; an
\* ingestion that is not a duplicate calls both encoders, the MP4 one first
C13_PreviewPriority ==
    /\ (Ingestion /\ last.outcome = "record") =>
          /\ last.mp4_path # "" =>
                /\ last.info.preview_type = "mp4"
                /\ last.info.vid_preview_path = InPreviews(last, last.mp4_path)
          /\ last.info.preview_type = "gif"
                <=> (last.mp4_path = "" /\ last.gif_path # "")
          /\ last.info.preview_type = "gif" =>
                last.info.vid_preview_path = InPreviews(last, last.gif_path)
          /\ last.info.preview_type \in {"mp4", "gif"}
    /\ Encoding =>
          /\ Called(last, "create_mp4_preview")
          /\ Called(last, "create_gif_preview")
          /\ Before(last, "create_mp4_preview", "create_gif_preview")

\* both encoders succeeded and the record names the MP4 clip
C13_Witness ==
    /\ Ingestion /\ last.outcome = "record"
    /\ last.mp4_path # "" /\ last.gif_path # ""
    /\ last.info.preview_type = "mp4"
    /\ last.info.vid_preview_path = InPreviews(last, last.mp4_path)

\* the call reached save_to_database and nothing was written
SaveFailed(call) == Called(call, "save_to_database") /\ call.row_id = 0

Succeeded == Ingestion /\ last.outcome = "record"

Rank(step) ==
    CASE step = "is_valid_url:youtube"  -> 1
      [] step = "is_valid_url:local"    -> 2
      [] step = "download_video"        -> 3
      [] step = "generate_content_hash" -> 4
      [] step = "is_duplicate"          -> 5
      [] step = "create_mp4_preview"    -> 6
      [] step = "create_gif_preview"    -> 7
      [] step = "rename_thumbnail"      -> 8
      [] step = "save_to_database"      -> 9
      [] OTHER                          -> 0

\* C16: the steps of one process_url call occur in the order source
\* selection, fetch, content hash, duplicate check, encoding, save, each at
\* most once; an encoder runs only after a fetch that returned a video path
\* and a negative duplicate check; save_to_database runs only after an
\* encoder produced a preview and the table takes at most one write per
\* call; a call that failed at selection, fetch or encoding or was skipped as
\* a duplicate runs none of the later steps
C16_StepOrdering ==
    /\ [](Ingestion =>
            /\ \A i, j \in DOMAIN last.steps :
                   i < j => /\ Rank(last.steps[i]) > 0
                            /\ Rank(last.steps[i]) < Rank(last.steps[j])
            /\ (Called(last, "create_mp4_preview") \/ Called(last, "create_gif_preview"))
                  => /\ last.fetched
                     /\ Called(last, "is_duplicate") /\ ~last.dup
                     /\ Called(last, "generate_content_hash")
            /\ Called(last, "save_to_database")
                  => /\ Called(last, "create_mp4_preview")
                     /\ last.mp4_path # "" \/ last.gif_path # ""
            /\ last.valid = {} => Rank(last.steps[Len(last.steps)]) <= 2
            /\ FetchFailed(last) => Rank(last.steps[Len(last.steps)]) = 3
            /\ last.dup => Rank(last.steps[Len(last.steps)]) = 5
            /\ (Encoding /\ last.mp4_path = "" /\ last.gif_path = "")
                  => ~Called(last, "save_to_database"))
    /\ [][last'.op = "process_url"
            => /\ nextId' \in {nextId, nextId + 1}
               /\ nextId' = nextId => records' = records
               /\ Cardinality(records' \ records) <= 1
               /\ ~Called(last', "save_to_database") => records' = records]_vars

\* an ingestion that went through every step, asking both sources
C16_Witness ==
    /\ Succeeded /\ last.row_id # 0
    /\ last.steps = <<"is_valid_url:youtube", "is_valid_url:local", "download_video",
                      "generate_content_hash", "is_duplicate", "create_mp4_preview",
                      "create_gif_preview", "rename_thumbnail", "save_to_database">>

----------------------------------------------------------------------------
(* Properties of the batches and their arguments *)

\* C17: process_url with an empty username returns None and
\* process_links_file with an empty username returns an empty list; neither
\* creates a directory, consults a source, invokes an encoder or changes the
\* table
C17_UsernameRequired ==
    /\ [][(last'.op = "process_url" /\ last'.user = "")
            => /\ last'.outcome = "None"
               /\ last'.steps = <<>> /\ last'.valid = {} /\ last'.source = ""
               /\ dirs' = dirs /\ tempFiles' = tempFiles
               /\ records' = records /\ nextId' = nextId]_vars
    /\ [][(batch.status = "idle" /\ batch'.kind = "process_links_file"
                                 /\ batch'.user = "")
            => /\ batch'.status = "returned"
               /\ batch'.results = <<>> /\ batch'.submitted = <<>>
               /\ last' = last
               /\ dirs' = dirs /\ tempFiles' = tempFiles
               /\ records' = records /\ nextId' = nextId]_vars

\* process_links_file returned [] for a file of two links and no username
C17_Witness ==
    /\ batch.kind = "process_links_file" /\ batch.status = "returned"
    /\ batch.user = "" /\ ~batch.entered
    /\ Len(batch.items) = 2
    /\ \A i \in DOMAIN batch.items : LineAccepted(batch.items[i])
    /\ batch.results = <<>> /\ dirs = {} /\ last.op = "none"

----------------------------------------------------------------------------
(* Clip timing: VideoPreviewCreator._get_clip_timing_moviepy.  Times are    *)
(* whole numbers of tenths of a second.  A video lasts a whole number of    *)
(* half seconds, so that 0.2 and 0.8 of its duration are exact; the         *)
(* requested preview duration is a whole number of seconds (an int in the   *)
(* code).  A behaviour of SpecTiming is a sequence of timing calls on one   *)
(* video file.                                                              *)

\* the longest video, in seconds
MaxDuration == 40

\* the longest requested preview, in seconds
MaxTarget == 30

\* random.random() is draw / DrawSteps for draw in 0..DrawSteps
DrawSteps == 16

Seconds(n) == 10 * n

HalfSeconds(n) == 5 * n

VideoDurations == {HalfSeconds(n) : n \in 1..(2 * MaxDuration)}

TargetDurations == {Seconds(n) : n \in 1..MaxTarget}

Draws == 0..DrawSteps

Min(a, b) == IF a <= b THEN a ELSE b

Max(a, b) == IF a >= b THEN a ELSE b

\* random.uniform(a, b) is a + (b - a) * random.random()
random_uniform(a, b, draw) == a + ((b - a) * draw) \div DrawSteps

\* (None, None)
NoWindow == [start_time |-> "", actual_duration |-> ""]

\* line 345 with max in the place of min
clip_timing_longest(readable, video_duration, target_duration, draw) ==
    LET start_threshold == (video_duration * 2) \div 10
        end_threshold == (video_duration * 8) \div 10
        max_start == Min(end_threshold - target_duration, video_duration - target_duration)
        min_start == Max(start_threshold, 0)
        start_time == IF max_start <= min_start THEN 0 ELSE random_uniform(min_start, max_start, draw)
    IN  IF ~readable THEN NoWindow
        ELSE IF video_duration <= target_duration
        THEN [start_time |-> 0, actual_duration |-> video_duration]
        ELSE [start_time |-> start_time,
              actual_duration |-> Max(target_duration, video_duration - start_time)]

\* line 334 with the requested duration in the place of the video's
clip_timing_requested(readable, video_duration, target_duration, draw) ==
    LET start_threshold == (video_duration * 2) \div 10
        end_threshold == (video_duration * 8) \div 10
        max_start == Min(end_threshold - target_duration, video_duration - target_duration)
        min_start == Max(start_threshold, 0)
        start_time == IF max_start <= min_start THEN 0 ELSE random_uniform(min_start, max_start, draw)
    IN  IF ~readable THEN NoWindow
        ELSE IF video_duration <= target_duration
        THEN [start_time |-> 0, actual_duration |-> target_duration]
        ELSE [start_time |-> start_time,
              actual_duration |-> Min(target_duration, video_duration - start_time)]

\* line 341 with min_start in the place of 0
clip_timing_from_threshold(readable, video_duration, target_duration, draw) ==
    LET start_threshold == (video_duration * 2) \div 10
        end_threshold == (video_duration * 8) \div 10
        max_start == Min(end_threshold - target_duration, video_duration - target_duration)
        min_start == Max(start_threshold, 0)
        start_time == IF max_start <= min_start THEN min_start ELSE random_uniform(min_start, max_start, draw)
    IN  IF ~readable THEN NoWindow
        ELSE IF video_duration <= target_duration
        THEN [start_time |-> 0, actual_duration |-> video_duration]
        ELSE [start_time |-> start_time,
              actual_duration |-> Min(target_duration, video_duration - start_time)]

\* line 343 drawing from the whole of the video that leaves room for the clip
clip_timing_whole_range(readable, video_duration, target_duration, draw) ==
    LET start_threshold == (video_duration * 2) \div 10
        end_threshold == (video_duration * 8) \div 10
        max_start == Min(end_threshold - target_duration, video_duration - target_duration)
        min_start == Max(start_threshold, 0)
        start_time == IF max_start <= min_start THEN 0 ELSE random_uniform(0, video_duration - target_duration, draw)
    IN  IF ~readable THEN NoWindow
        ELSE IF video_duration <= target_duration
        THEN [start_time |-> 0, actual_duration |-> video_duration]
        ELSE [start_time |-> start_time,
              actual_duration |-> Min(target_duration, video_duration - start_time)]

\* VideoPreviewCreator._get_clip_timing_moviepy; readable is FALSE when
\* VideoFileClip raises
_get_clip_timing_moviepy(readable, video_duration, target_duration, draw) ==
    LET start_threshold == (video_duration * 2) \div 10
        end_threshold == (video_duration * 8) \div 10
        max_start == Min(end_threshold - target_duration, video_duration - target_duration)
        min_start == Max(start_threshold, 0)
        start_time == IF max_start <= min_start THEN 0 ELSE random_uniform(min_start, max_start, draw)
    IN  IF ~readable THEN NoWindow
        ELSE IF video_duration <= target_duration
        THEN [start_time |-> 0, actual_duration |-> video_duration]
        ELSE [start_time |-> start_time,
              actual_duration |-> Min(target_duration, video_duration - start_time)]

\* the video file the timing calls are made on
Clip(readable, video_duration) ==
    [op |-> "clip", readable |-> readable, video_duration |-> video_duration]

InitTiming ==
    /\ records = {}
    /\ nextId = 0
    /\ dbConn = TRUE
    /\ dirs = {}
    /\ tempFiles = {}
    /\ batch = NoBatch
    /\ last \in {Clip(readable, video_duration) : readable \in BOOLEAN, video_duration \in VideoDurations}

\* one call of _get_clip_timing_moviepy on the video
GetClipTiming ==
    /\ last.op = "clip"
    /\ \E target_duration \in TargetDurations, draw \in Draws :
         \E out \in {_get_clip_timing_moviepy(last.readable, last.video_duration, target_duration, draw)} :
            last' = [op |-> "get_clip_timing",
                     readable |-> last.readable,
                     video_duration |-> last.video_duration,
                     target_duration |-> target_duration,
                     draw |-> draw,
                     start_time |-> out.start_time,
                     actual_duration |-> out.actual_duration]
    /\ UNCHANGED <<records, nextId, dbConn, dirs, tempFiles, batch>>

\* the caller has the window and goes on; the video is as it was
TimingReturn ==
    /\ last.op = "get_clip_timing"
    /\ last' = Clip(last.readable, last.video_duration)
    /\ UNCHANGED <<records, nextId, dbConn, dirs, tempFiles, batch>>

NextTiming == GetClipTiming \/ TimingReturn

SpecTiming == InitTiming /\ [][NextTiming]_vars

\* a timing call has returned a window
Timed == last.op = "get_clip_timing" /\ last.readable

\* the safe window of the call: 0.2 of the video, and 0.8 of it less the
\* requested duration
MinStart == (last.video_duration * 2) \div 10

MaxStart == Min((last.video_duration * 8) \div 10 - last.target_duration, last.video_duration - last.target_duration)

\* C18: whatever the video's duration, the requested duration and the random
\* draw, the window a timing call returns starts at 0 or later, ends no later
\* than the video does, and is no longer than the requested duration.
C18_ClipWindowContainment ==
    Timed =>
        /\ 0 <= last.start_time
        /\ last.start_time + last.actual_duration <= last.video_duration
        /\ last.actual_duration <= last.target_duration

C18_Witness ==
    /\ Timed
    /\ last.video_duration > last.target_duration
    /\ last.start_time > 0
    /\ last.start_time + last.actual_duration < last.video_duration
    /\ last.actual_duration = last.target_duration

\* C19: when the video is no longer than the requested duration, equality
\* included, the window is exactly (0, the video's duration), whatever the
\* random draw.
C19_ShortVideoPassthrough ==
    (Timed /\ last.video_duration <= last.target_duration) =>
        /\ last.start_time = 0
        /\ last.actual_duration = last.video_duration

C19_Witness ==
    /\ Timed
    /\ last.video_duration = last.target_duration
    /\ last.draw > 0
    /\ last.start_time = 0
    /\ last.actual_duration = last.video_duration

\* C20: when the video is longer than the requested duration and the safe
\* window has collapsed (MaxStart <= MinStart), the window is exactly
\* (0, the requested duration).
C20_CollapsedWindowFallback ==
    (Timed /\ last.video_duration > last.target_duration /\ MaxStart <= MinStart) =>
        /\ last.start_time = 0
        /\ last.actual_duration = last.target_duration

\* a video of 40 seconds and a requested duration of 30
C20_Witness ==
    /\ Timed
    /\ last.video_duration = Seconds(40)
    /\ last.target_duration = Seconds(30)
    /\ MaxStart = Seconds(2)
    /\ MinStart = Seconds(8)
    /\ last.draw > 0
    /\ last.start_time = 0
    /\ last.actual_duration = Seconds(30)

----------------------------------------------------------------------------
(* Preview encoding: VideoPreviewCreator.create_mp4_preview and             *)
(* create_gif_preview with their fallbacks.  A behaviour of SpecPreview is  *)
(* a sequence of encoding calls on one video file.                          *)

\* the durations process_url asks for, in seconds
Mp4Duration == 8

GifDuration == 5

\* the most that _create_fallback_gif trims to, in seconds
FallbackSeconds == 5

PreviewTargets == {Seconds(Mp4Duration), Seconds(GifDuration)}

\* a short video, one whose safe window has collapsed, and a long one
PreviewDurations == {Seconds(4), Seconds(7), Seconds(20)}

PreviewDraws == {0, DrawSteps}

\* how one subprocess.run of ffmpeg ends: exit code 0; another exit code
\* with a stderr that decodes as UTF-8, or with one that does not;
\* FileNotFoundError or a SubprocessError; another exception (such as
\* PermissionError)
RunOutcomes == {"exit0", "nonzero", "nonzero_undecodable", "not_found", "os_error"}

\* bytes.decode() of the stderr of a run, in the warning that is logged for
\* an exit code other than 0: raises UnicodeDecodeError on other bytes
DecodeRaises(run) == run = "nonzero_undecodable"

\* the run raised, and the handler around it does not catch what it raised
RunRaises(run) == run = "os_error"

\* the outcomes of the steps of one encoding call: the random draw, the two
\* ffmpeg runs, VideoFileClip(video_path), subclip/resize/write of the
\* in-process library, and the whole of _create_fallback_gif
PreviewEnvs ==
    [draw : PreviewDraws, run1 : RunOutcomes, run2 : RunOutcomes,
     load : BOOLEAN, encode : BOOLEAN, fallback : BOOLEAN]

\* the video file the encoding calls are made on
Video(exists, readable, video_duration) ==
    [op |-> "video", exists |-> exists, readable |-> readable, video_duration |-> video_duration]

MP4_PATH == "previews/clip_preview.mp4"

GIF_PATH == "previews/clip.gif"

\* one attempt of a tier on the part of the video from .from to .to
Attempt(tier, from, to) == [tier |-> tier, from |-> from, to |-> to]

\* what an encoding call did: the window it computed, the attempts it made
\* in order, and the path it returned ("" for None)
NoPreview ==
    [timed |-> FALSE, start_time |-> 0, actual_duration |-> 0, steps |-> <<>>, path |-> ""]

\* lines 275-302 of create_mp4_preview: the in-process library
create_mp4_preview_moviepy(w, env, pv) ==
    [pv EXCEPT !.steps = Append(pv.steps, Attempt("moviepy", w.start_time, w.start_time + w.actual_duration)),
               !.path = IF env.load /\ env.encode THEN MP4_PATH ELSE ""]

\* lines 248-273 of create_mp4_preview: ffmpeg
create_mp4_preview_ffmpeg(w, env, pv) ==
    IF env.run1 = "exit0" THEN [pv EXCEPT !.path = MP4_PATH]
    ELSE IF RunRaises(env.run1) \/ DecodeRaises(env.run1) THEN pv
    ELSE create_mp4_preview_moviepy(w, env, pv)

\* VideoPreviewCreator.create_mp4_preview
VideoPreviewCreator_create_mp4_preview(video, target_duration, env) ==
    LET w == _get_clip_timing_moviepy(video.readable, video.video_duration, target_duration, env.draw)
    IN  IF ~video.exists THEN NoPreview
        ELSE IF ~video.readable THEN NoPreview
        ELSE \* the window is computed
             create_mp4_preview_ffmpeg(w, env,
                 [NoPreview EXCEPT !.timed = TRUE,
                                   !.start_time = w.start_time,
                                   !.actual_duration = w.actual_duration,
                                   !.steps = <<Attempt("ffmpeg", w.start_time, w.start_time + w.actual_duration)>>])

InitPreview ==
    /\ records = {}
    /\ nextId = 0
    /\ dbConn = TRUE
    /\ dirs = {}
    /\ tempFiles = {}
    /\ batch = NoBatch
    /\ last \in {Video(exists, readable, video_duration) : exists \in BOOLEAN, readable \in BOOLEAN, video_duration \in PreviewDurations}

\* the steps an MP4 call can come to
Mp4Envs == {e \in PreviewEnvs : e.run2 = "exit0" /\ ~e.fallback /\ (e.run1 \notin {"nonzero", "not_found"} => ~e.load /\ ~e.encode) /\ (~e.load => ~e.encode)}

PreviewCall(op, video, target_duration, env, pv) ==
    [op |-> op, exists |-> video.exists, readable |-> video.readable,
     video_duration |-> video.video_duration, target_duration |-> target_duration,
     env |-> env, timed |-> pv.timed, start_time |-> pv.start_time,
     actual_duration |-> pv.actual_duration, steps |-> pv.steps, path |-> pv.path]

\* one call of create_mp4_preview on the video
CreateMp4Preview ==
    /\ last.op = "video"
    /\ \E target_duration \in PreviewTargets, env \in Mp4Envs :
         \E pv \in {VideoPreviewCreator_create_mp4_preview(last, target_duration, env)} :
            last' = PreviewCall("create_mp4_preview", last, target_duration, env, pv)
    /\ UNCHANGED <<records, nextId, dbConn, dirs, tempFiles, batch>>

\* the caller has the path and goes on; the video is as it was
PreviewReturn ==
    /\ last.op \in {"create_mp4_preview", "create_gif_preview"}
    /\ last' = Video(last.exists, last.readable, last.video_duration)
    /\ UNCHANGED <<records, nextId, dbConn, dirs, tempFiles, batch>>

\* VideoPreviewCreator._create_fallback_gif: the first seconds of the video
\* when the window starts after 0, the whole video when it starts at 0
_create_fallback_gif(video, w, env, pv) ==
    LET to == IF w.start_time > 0 THEN Min(Seconds(FallbackSeconds), video.video_duration)
              ELSE video.video_duration
    IN  [pv EXCEPT !.steps = Append(pv.steps, Attempt("fallback", 0, to)),
                   !.path = IF env.fallback THEN GIF_PATH ELSE ""]

\* VideoPreviewCreator._create_gif_preview_moviepy
_create_gif_preview_moviepy(video, w, env, pv) ==
    LET tried == [pv EXCEPT !.steps = Append(pv.steps, Attempt("moviepy", w.start_time, w.start_time + w.actual_duration))]
    IN  IF ~env.load THEN tried
        ELSE IF env.encode THEN [tried EXCEPT !.path = GIF_PATH]
        ELSE _create_fallback_gif(video, w, env, tried)

\* lines 90-116 of create_gif_preview: the second ffmpeg run, with the palette
create_gif_preview_paletteuse(video, w, env, pv) ==
    LET tried == [pv EXCEPT !.steps = Append(pv.steps, Attempt("paletteuse", w.start_time, w.start_time + w.actual_duration))]
    IN  IF env.run2 = "exit0" THEN [tried EXCEPT !.path = GIF_PATH]
        ELSE IF RunRaises(env.run2) \/ DecodeRaises(env.run2) THEN tried
        ELSE _create_gif_preview_moviepy(video, w, env, tried)

\* lines 72-123 of create_gif_preview: the first ffmpeg run, for the palette
create_gif_preview_palettegen(video, w, env, pv) ==
    IF env.run1 = "exit0" THEN create_gif_preview_paletteuse(video, w, env, pv)
    ELSE IF RunRaises(env.run1) \/ DecodeRaises(env.run1) THEN pv
    ELSE _create_gif_preview_moviepy(video, w, env, pv)

\* VideoPreviewCreator.create_gif_preview
VideoPreviewCreator_create_gif_preview(video, target_duration, env) ==
    LET w == _get_clip_timing_moviepy(video.readable, video.video_duration, target_duration, env.draw)
    IN  IF ~video.exists THEN NoPreview
        ELSE IF ~video.readable THEN NoPreview
        ELSE \* the window is computed
             create_gif_preview_palettegen(video, w, env,
                 [NoPreview EXCEPT !.timed = TRUE,
                                   !.start_time = w.start_time,
                                   !.actual_duration = w.actual_duration,
                                   !.steps = <<Attempt("palettegen", w.start_time, w.start_time + w.actual_duration)>>])

Continues(run) == run \in {"nonzero", "not_found"}

\* the steps a GIF call can come to
GifEnvs == {e \in PreviewEnvs : (e.run1 # "exit0" => e.run2 = "exit0") /\ (~(Continues(e.run1) \/ (e.run1 = "exit0" /\ Continues(e.run2))) => ~e.load) /\ (~e.load => ~e.encode) /\ ((~e.load \/ e.encode) => ~e.fallback)}

\* one call of create_gif_preview on the video
CreateGifPreview ==
    /\ last.op = "video"
    /\ \E target_duration \in PreviewTargets, env \in GifEnvs :
         \E pv \in {VideoPreviewCreator_create_gif_preview(last, target_duration, env)} :
            last' = PreviewCall("create_gif_preview", last, target_duration, env, pv)
    /\ UNCHANGED <<records, nextId, dbConn, dirs, tempFiles, batch>>

NextPreview == CreateMp4Preview \/ CreateGifPreview \/ PreviewReturn

SpecPreview == InitPreview /\ [][NextPreview]_vars

\* the tiers a call attempted, in order
Tiers == [i \in DOMAIN last.steps |-> last.steps[i].tier]

Attempted(tier) == \E i \in DOMAIN last.steps : last.steps[i].tier = tier

\* the call ran the tier on the window it had computed
OnWindow(tier) ==
    \E i \in DOMAIN last.steps :
        /\ last.steps[i].tier = tier
        /\ last.steps[i].from = last.start_time
        /\ last.steps[i].to = last.start_time + last.actual_duration

\* a call of create_mp4_preview that came to its encoders: the video is
\* there and its window is computed
Mp4Encoding == last.op = "create_mp4_preview" /\ last.timed

\* C21: create_mp4_preview returns the path without the in-process library
\* when ffmpeg exits with 0; when ffmpeg is unavailable or exits with another
\* code it runs the in-process library on the same window and returns the
\* path if that succeeds; it returns None only when both have failed.
C21_Mp4FallbackCascade ==
    Mp4Encoding =>
        /\ last.env.run1 = "exit0" => last.path = MP4_PATH /\ ~Attempted("moviepy")
        /\ last.env.run1 # "exit0" =>
              /\ OnWindow("moviepy")
              /\ (last.env.load /\ last.env.encode) => last.path = MP4_PATH
        /\ last.path = "" =>
              /\ last.env.run1 # "exit0"
              /\ Attempted("moviepy")
              /\ ~(last.env.load /\ last.env.encode)

\* a call of create_gif_preview that came to its encoders
GifEncoding == last.op = "create_gif_preview" /\ last.timed

\* the place of a tier in the cascade: the two ffmpeg passes, the in-process
\* library, the minimal-settings fallback
TierRank(tier) ==
    CASE tier = "palettegen" -> 1
      [] tier = "paletteuse" -> 2
      [] tier = "moviepy" -> 3
      [] tier = "fallback" -> 4
      [] OTHER -> 0

\* the tier succeeded in this call
TierSucceeded(tier) ==
    CASE tier = "palettegen" -> last.env.run1 = "exit0"
      [] tier = "paletteuse" -> last.env.run1 = "exit0" /\ last.env.run2 = "exit0"
      [] tier = "moviepy" -> last.env.load /\ last.env.encode
      [] tier = "fallback" -> last.env.fallback
      [] OTHER -> FALSE

\* C22: create_gif_preview tries its tiers in the order ffmpeg (palette
\* generation, then the encode with the palette), in-process library on the
\* computed window, minimal-settings fallback; it returns the path of the
\* first tier that succeeds, and returns None only after every tier has been
\* attempted and has failed.
C22_GifFallbackCascade ==
    GifEncoding =>
        /\ \A i, j \in DOMAIN last.steps : i < j => TierRank(Tiers[i]) < TierRank(Tiers[j])
        /\ Tiers[1] = "palettegen"
        /\ Attempted("moviepy") => OnWindow("moviepy")
        /\ last.path # "" =>
              /\ last.path = GIF_PATH
              /\ TierSucceeded(Tiers[Len(Tiers)])
              /\ \A i \in 1..(Len(Tiers) - 1) : Tiers[i] = "palettegen" \/ ~TierSucceeded(Tiers[i])
        /\ last.path = "" =>
              /\ Attempted("moviepy") /\ Attempted("fallback")
              /\ \A i \in DOMAIN last.steps : Tiers[i] = "palettegen" \/ ~TierSucceeded(Tiers[i])

\* C23: whenever _create_fallback_gif is reached, whatever the computed
\* window (a start of 0 included) and the video's duration, it encodes a
\* segment that starts at 0 and is at most 5 seconds long.
C23_FallbackGifFirstSeconds ==
    GifEncoding =>
        \A i \in DOMAIN last.steps :
            last.steps[i].tier = "fallback" =>
                /\ last.steps[i].from = 0
                /\ last.steps[i].to <= Seconds(FallbackSeconds)

----------------------------------------------------------------------------
(* VideoPreviewCreator.extract_thumbnail.  time_percent is in tenths.       *)

\* how the ffprobe run ends: as an ffmpeg run does, or with exit code 0 and
\* an output that float() does not parse
ProbeOutcomes == RunOutcomes \cup {"exit0_unparsable"}

TimePercents == {0, 3, 10}

\* the ffprobe run raised something its handler does not catch; with
\* text=True subprocess.run itself decodes the output
ProbeRaises(probe) == RunRaises(probe) \/ DecodeRaises(probe)

\* the outcomes of the steps of one call: the ffprobe run, the ffmpeg run,
\* and VideoFileClip with save_frame
ThumbEnvs == [probe : ProbeOutcomes, run : RunOutcomes, frame : BOOLEAN]

\* duration * time_percent
FrameTime(video_duration, time_percent) == (video_duration * time_percent) \div 10

\* what a call did: the frames it asked for in order, and what it returned
NoThumbnail == [steps |-> <<>>, ok |-> FALSE]

\* lines 412-421 of extract_thumbnail: the in-process library
extract_thumbnail_moviepy(video, time_percent, env, th) ==
    LET t == FrameTime(video.video_duration, time_percent)
    IN  [th EXCEPT !.steps = Append(th.steps, Attempt("moviepy", t, t)),
                   !.ok = env.frame]

\* lines 392-407 of extract_thumbnail: ffmpeg at thumbnail_time
extract_thumbnail_ffmpeg(video, time_percent, env, thumbnail_time) ==
    LET th == [NoThumbnail EXCEPT !.steps = <<Attempt("ffmpeg", thumbnail_time, thumbnail_time)>>]
    IN  IF env.run = "exit0" THEN [th EXCEPT !.ok = TRUE]
        ELSE IF RunRaises(env.run) \/ DecodeRaises(env.run) THEN th
        ELSE extract_thumbnail_moviepy(video, time_percent, env, th)

\* VideoPreviewCreator.extract_thumbnail
extract_thumbnail(video, time_percent, env) ==
    IF env.probe = "not_found" THEN extract_thumbnail_moviepy(video, time_percent, env, NoThumbnail)
    ELSE IF ProbeRaises(env.probe) THEN NoThumbnail
    ELSE IF env.probe = "exit0"
    THEN extract_thumbnail_ffmpeg(video, time_percent, env, FrameTime(video.video_duration, time_percent))
    ELSE \* thumbnail_time = 1.0
         extract_thumbnail_ffmpeg(video, time_percent, env, Seconds(1))

\* the steps a call can come to on the video
ThumbEnvsOf(video) ==
    {e \in ThumbEnvs :
        /\ ~(video.exists /\ video.readable) => e.probe \notin {"exit0", "exit0_unparsable"} /\ e.run # "exit0" /\ ~e.frame
        /\ (e.probe = "not_found" \/ ProbeRaises(e.probe)) => e.run = "not_found"
        /\ (e.run = "exit0" \/ RunRaises(e.run) \/ DecodeRaises(e.run) \/ ProbeRaises(e.probe)) => ~e.frame}

\* one call of extract_thumbnail on the video
ExtractThumbnail ==
    /\ last.op = "video"
    /\ \E time_percent \in TimePercents, env \in ThumbEnvsOf(last) :
         \E th \in {extract_thumbnail(last, time_percent, env)} :
            last' = [op |-> "extract_thumbnail", exists |-> last.exists,
                     readable |-> last.readable, video_duration |-> last.video_duration,
                     time_percent |-> time_percent, env |-> env,
                     steps |-> th.steps, ok |-> th.ok]
    /\ UNCHANGED <<records, nextId, dbConn, dirs, tempFiles, batch>>

\* the caller has the answer and goes on; the video is as it was
ThumbnailReturn ==
    /\ last.op = "extract_thumbnail"
    /\ last' = Video(last.exists, last.readable, last.video_duration)
    /\ UNCHANGED <<records, nextId, dbConn, dirs, tempFiles, batch>>

NextThumbnail == ExtractThumbnail \/ ThumbnailReturn

SpecThumbnail == InitPreview /\ [][NextThumbnail]_vars

\* the call asked the in-process library for the frame at time_percent of
\* the video
FrameByLibrary ==
    \E i \in DOMAIN last.steps :
        /\ last.steps[i].tier = "moviepy"
        /\ last.steps[i].from = FrameTime(last.video_duration, last.time_percent)

\* a step of the external chain failed: ffprobe or ffmpeg is missing, raises
\* or exits with a code other than 0
ChainFailed ==
    \/ last.env.probe \notin {"exit0", "exit0_unparsable"}
    \/ last.env.run # "exit0"

\* C24: if a step of the external chain fails, extract_thumbnail asks the
\* in-process library for the frame at time_percent of the duration and
\* returns True when the library succeeds; it returns False only if the
\* library fails too.
C24_ThumbnailFallback ==
    last.op = "extract_thumbnail" =>
        /\ ChainFailed => FrameByLibrary /\ (last.ok <=> last.env.frame)
        /\ ~last.ok => FrameByLibrary /\ ~last.env.frame

----------------------------------------------------------------------------
(* LocalFileSource.download_video: the metadata it reads from the sidecar   *)
(* file <base_name>.txt.  A file is the sequence of its lines, that is      *)
(* content.split('\n'): the empty file is <<"">>.  A behaviour of           *)
(* SpecSidecar is a sequence of reads of one video and its sidecar.         *)

\* a sidecar has at most MaxLines lines
MaxLines == 4

\* the lines a sidecar is made of: text, empty and blank lines, and lines
\* that begin with "year:" in some case, with a token that int() parses or
\* does not
SidecarLines == {"Holiday", "at the lake", "", " ", "year: 2020", "YEAR: 1999", "Year: soon", "year: 0"}

\* line.strip() = ""
IsBlank(line) == line \in {"", " "}

\* line.lower().startswith("year:")
StartsWithYear(line) == line \in {"year: 2020", "YEAR: 1999", "Year: soon", "year: 0"}

\* line.split(":", 1)[1].strip()
year_text(line) ==
    CASE line = "year: 2020" -> "2020"
      [] line = "YEAR: 1999" -> "1999"
      [] line = "Year: soon" -> "soon"
      [] line = "year: 0" -> "0"
      [] OTHER -> ""

\* int(year_text) raises ValueError
IntRaises(text) == text \notin {"2020", "1999", "0"}

\* int(year_text)
IntOf(text) ==
    CASE text = "2020" -> 2020
      [] text = "1999" -> 1999
      [] OTHER -> 0

\* the video file: its base name and the year of its modification time
BASE_NAME == "clip"

MtimeYears == {2021}

RECURSIVE DropLeadingBlank(_)
DropLeadingBlank(lines) ==
    IF lines = <<>> THEN <<>>
    ELSE IF IsBlank(Head(lines)) THEN DropLeadingBlank(Tail(lines))
    ELSE lines

RECURSIVE DropTrailingBlank(_)
DropTrailingBlank(lines) ==
    IF lines = <<>> THEN <<>>
    ELSE IF IsBlank(lines[Len(lines)]) THEN DropTrailingBlank(SubSeq(lines, 1, Len(lines) - 1))
    ELSE lines

\* f.read().strip().split('\n'): the blank lines at both ends go, and what
\* is left of an empty or blank file is one empty line
StripSplit(content) ==
    LET kept == DropTrailingBlank(DropLeadingBlank(content))
    IN  IF kept = <<>> THEN <<"">> ELSE kept

\* '\n'.join(lines)
RECURSIVE Join(_)
Join(lines) ==
    IF lines = <<>> THEN ""
    ELSE IF Len(lines) = 1 THEN lines[1]
    ELSE lines[1] \o "\n" \o Join(Tail(lines))

\* lines 108-117: the year of the lines read so far (0 for None) and the
\* lines kept for the description
RECURSIVE ScanLines(_, _, _)
ScanLines(lines, upload_year, filtered_lines) ==
    IF lines = <<>> THEN [upload_year |-> upload_year, filtered_lines |-> filtered_lines]
    ELSE IF StartsWithYear(Head(lines))
    THEN IF IntRaises(year_text(Head(lines)))
         THEN ScanLines(Tail(lines), upload_year, filtered_lines)
         ELSE ScanLines(Tail(lines), IntOf(year_text(Head(lines))), filtered_lines)
    ELSE ScanLines(Tail(lines), upload_year, Append(filtered_lines, Head(lines)))

\* lines 88-128 of LocalFileSource.download_video: title, description and
\* upload year; sidecar.exists is os.path.exists(description_file)
download_video_metadata(base_name, sidecar, mtime_year) ==
    LET lines == StripSplit(sidecar.content)
        scan == ScanLines(Tail(lines), 0, <<>>)
        video_title == IF sidecar.exists THEN (IF lines # <<>> THEN lines[1] ELSE base_name) ELSE base_name
        description_text == IF sidecar.exists THEN Join(scan.filtered_lines) ELSE ""
        upload_year == IF sidecar.exists THEN scan.upload_year ELSE 0
    IN  [video_title |-> video_title,
         description_text |-> description_text,
         upload_year |-> IF upload_year = 0 THEN mtime_year ELSE upload_year]

NoSidecar == [exists |-> FALSE, content |-> <<>>]

Sidecars == {NoSidecar} \cup {[exists |-> TRUE, content |-> c] : c \in UNION {[1..n -> SidecarLines] : n \in 1..MaxLines}}

LocalVideo(sidecar, mtime_year) ==
    [op |-> "local_video", sidecar |-> sidecar, mtime_year |-> mtime_year]

InitSidecar ==
    /\ records = {}
    /\ nextId = 0
    /\ dbConn = TRUE
    /\ dirs = {}
    /\ tempFiles = {}
    /\ batch = NoBatch
    /\ last \in {LocalVideo(sidecar, mtime_year) : sidecar \in Sidecars, mtime_year \in MtimeYears}

\* one read of the metadata by download_video
ReadMetadata ==
    /\ last.op = "local_video"
    /\ \E out \in {download_video_metadata(BASE_NAME, last.sidecar, last.mtime_year)} :
         last' = [op |-> "download_video_metadata", sidecar |-> last.sidecar,
                  mtime_year |-> last.mtime_year,
                  lines |-> IF last.sidecar.exists THEN StripSplit(last.sidecar.content) ELSE <<>>,
                  video_title |-> out.video_title,
                  description_text |-> out.description_text,
                  upload_year |-> out.upload_year]
    /\ UNCHANGED <<records, nextId, dbConn, dirs, tempFiles, batch>>

\* download_video has returned; the files are as they were
MetadataReturn ==
    /\ last.op = "download_video_metadata"
    /\ last' = LocalVideo(last.sidecar, last.mtime_year)
    /\ UNCHANGED <<records, nextId, dbConn, dirs, tempFiles, batch>>

NextSidecar == ReadMetadata \/ MetadataReturn

SpecSidecar == InitSidecar /\ [][NextSidecar]_vars

\* the places, after the first line, of the lines that begin with "year:"
YearPlaces == {i \in 2..Len(last.lines) : StartsWithYear(last.lines[i])}

\* the first of them
FirstYearPlace == CHOOSE i \in YearPlaces : \A j \in YearPlaces : i <= j

\* the lines after the first, without the one at place k
RECURSIVE Others(_, _, _)
Others(lines, i, k) ==
    IF i > Len(lines) THEN <<>>
    ELSE IF i = k THEN Others(lines, i + 1, k)
    ELSE <<lines[i]>> \o Others(lines, i + 1, k)

\* C25: for a sidecar of two lines or more the title is the first line; the
\* first later line that begins with "year:" (in any case) gives the upload
\* year and is left out of the description; every other later line, a
\* further "year:" line included, is in the description, in order, joined
\* by newlines.
C25_SidecarParsing ==
    (last.op = "download_video_metadata" /\ last.sidecar.exists /\ Len(last.lines) >= 2) =>
        /\ last.video_title = last.lines[1]
        /\ YearPlaces = {} => last.description_text = Join(Others(last.lines, 2, 0))
        /\ YearPlaces # {} =>
              /\ last.description_text = Join(Others(last.lines, 2, FirstYearPlace))
              /\ ~IntRaises(year_text(last.lines[FirstYearPlace])) =>
                    last.upload_year = IntOf(year_text(last.lines[FirstYearPlace]))

\* C26: without a sidecar, and with a sidecar that is empty or holds only
\* whitespace, the title is the video's base file name without extension and
\* the description is empty.
C26_TitleFallback ==
    (last.op = "download_video_metadata" /\ (~last.sidecar.exists \/ \A i \in DOMAIN last.sidecar.content : IsBlank(last.sidecar.content[i]))) =>
        /\ last.video_title = BASE_NAME
        /\ last.description_text = ""

\* the years that int() parsed from the "year:" lines of the sidecar
ParsedYears == {IntOf(year_text(last.lines[i])) : i \in {j \in YearPlaces : ~IntRaises(year_text(last.lines[j]))}}

\* C27: the upload year is the integer parsed from the sidecar's year line
\* when one was parsed, and the calendar year of the video's modification
\* time in every other case (no sidecar, no year line, a token that is not
\* an integer).
C27_YearFallback ==
    last.op = "download_video_metadata" =>
        /\ ParsedYears # {} => last.upload_year \in ParsedYears
        /\ ParsedYears = {} => last.upload_year = last.mtime_year

----------------------------------------------------------------------------
(* download_video of the two sources, called on its own.  A behaviour of    *)
(* SpecFetch is a sequence of fetches into one output directory.            *)

\* the locators a source is asked to fetch
FetchUrls(source_name) ==
    IF source_name = "youtube" THEN {url \in AllLocators : is_valid_youtube_url(url)}
    ELSE {LOCAL1, FILE1, DUAL}

\* the answers a fetch can consume: whether the video can be fetched (for
\* the local source, whether the file exists), whether the symlink can be
\* made, whether the thumbnail is written, and whether the YouTube video
\* has a publish date
FetchEnvs(source_name) ==
    {e \in AllEnvs :
        /\ ~e.probe /\ ~e.exists /\ ~e.readable /\ ~e.mp4 /\ ~e.gif /\ e.store = "ok"
        /\ ~e.fetch => ~e.symlink /\ ~e.thumb /\ ~e.dated
        /\ source_name = "youtube" => ~e.symlink
        /\ source_name = "local" => ~e.dated}

\* one call of download_video of a source
DownloadVideo ==
    /\ batch.status = "idle"
    /\ last.op = "none"
    /\ \E source_name \in Range(video_sources) :
         \E url \in FetchUrls(source_name), env \in FetchEnvs(source_name) :
            \E dl \in {download_video(source_name, url, tempFiles, env)} :
               /\ tempFiles' = dl.files
               /\ last' = [op |-> "download_video", source |-> source_name, url |-> url,
                           video_path |-> dl.video_path,
                           thumbnail_path |-> dl.thumbnail_path,
                           title |-> dl.title, upload_year |-> dl.upload_year]
    /\ UNCHANGED <<records, nextId, dbConn, dirs, batch>>

NextFetch == DownloadVideo \/ Resume

SpecFetch == Init /\ [][NextFetch]_vars

\* C28: download_video of either source returns five Nones, or a video path
\* with a title and an upload year that are present; only the thumbnail path
\* may be absent then, and a thumbnail path that is present is that of a
\* file that was written.
C28_FetchAllOrNothing ==
    last.op = "download_video" =>
        \/ /\ last.video_path = ""
           /\ last.thumbnail_path = ""
           /\ last.title = ""
           /\ last.upload_year = 0
        \/ /\ last.video_path # ""
           /\ last.title # ""
           /\ last.upload_year # 0
           /\ last.thumbnail_path # "" => last.thumbnail_path \in FileNames(tempFiles)

----------------------------------------------------------------------------
(* Two executions of process_url for one locator and one user, side by      *)
(* side on one output directory and one database.  Each execution takes     *)
(* the steps of process_url one at a time; what it holds in its local       *)
(* variables is its own, the files and the table are shared.  Nothing       *)
(* outside fails: the video can be fetched, its thumbnail is written, and   *)
(* a file that is there can be read and encoded.                            *)

Runs == {1, 2}

RaceLocators == {YT1, FILE1}

RACE_USER == "alice"

\* the answers of the outside world to a step, given the files that are
\* there when the step is taken
RaceEnv(files, video_path) ==
    [EnvDefault EXCEPT !.probe = TRUE, !.fetch = TRUE, !.symlink = TRUE,
                       !.thumb = TRUE, !.dated = TRUE,
                       !.readable = video_path \in FileNames(files),
                       !.mp4 = video_path \in FileNames(files),
                       !.gif = video_path \in FileNames(files)]

\* the local variables of an execution, and where it is
NoRun ==
    [pc |-> "start", source |-> "", video_path |-> "", thumbnail_path |-> "",
     title |-> "", upload_year |-> 0, content_hash |-> "", passed |-> FALSE,
     mp4_path |-> "", gif_path |-> "", row_id |-> 0, outcome |-> "running"]

InitRace ==
    /\ records = {}
    /\ nextId = 0
    /\ dbConn = TRUE
    /\ dirs = {}
    /\ tempFiles = {}
    /\ batch = NoBatch
    /\ last \in {[op |-> "race", url |-> url, run |-> [p \in Runs |-> NoRun]] : url \in RaceLocators}

Finished(run, outcome) == [run EXCEPT !.pc = "done", !.outcome = outcome]

\* ensure_user_directories, the choice of the source and download_video
RaceFetch(p) ==
    /\ last.op = "race"
    /\ last.run[p].pc = "start"
    /\ \E env \in {RaceEnv(tempFiles, "")} :
         \E k \in {FirstValid(last.url, env)} :
            \E dl \in {download_video(video_sources[k], last.url, tempFiles, env)} :
               /\ tempFiles' = dl.files
               /\ dirs' = dirs \cup UserDirs(RACE_USER)
               /\ last' = [last EXCEPT !.run[p] =
                              [@ EXCEPT !.pc = "hash",
                                        !.source = video_sources[k],
                                        !.video_path = dl.video_path,
                                        !.thumbnail_path = dl.thumbnail_path,
                                        !.title = dl.title,
                                        !.upload_year = dl.upload_year]]
    /\ UNCHANGED <<records, nextId, dbConn, batch>>

\* generate_content_hash
RaceHash(p) ==
    /\ last.op = "race"
    /\ last.run[p].pc = "hash"
    /\ last' = [last EXCEPT !.run[p] =
                   [@ EXCEPT !.pc = "dedup",
                             !.content_hash = generate_content_hash(last.run[p].source, last.url, RaceEnv(tempFiles, last.run[p].video_path))]]
    /\ UNCHANGED <<records, nextId, dbConn, dirs, tempFiles, batch>>

\* is_duplicate, and the removal of the fetched files at a duplicate
RaceDedup(p) ==
    /\ last.op = "race"
    /\ last.run[p].pc = "dedup"
    /\ IF is_duplicate(records, dbConn, "ok", last.url, last.run[p].content_hash)
       THEN /\ tempFiles' = Without(Without(tempFiles, last.run[p].video_path), last.run[p].thumbnail_path)
            /\ last' = [last EXCEPT !.run[p] = Finished(@, "None")]
       ELSE /\ tempFiles' = tempFiles
            /\ last' = [last EXCEPT !.run[p] = [@ EXCEPT !.pc = "mp4", !.passed = TRUE]]
    /\ UNCHANGED <<records, nextId, dbConn, dirs, batch>>

\* create_mp4_preview
RaceMp4(p) ==
    /\ last.op = "race"
    /\ last.run[p].pc = "mp4"
    /\ \E mp4_path \in {create_mp4_preview(last.run[p].video_path, last.run[p].title, RaceEnv(tempFiles, last.run[p].video_path))} :
         /\ dirs' = dirs \cup (IF mp4_path # "" THEN {RACE_USER \o "/previews/" \o mp4_path} ELSE {})
         /\ last' = [last EXCEPT !.run[p] = [@ EXCEPT !.pc = "gif", !.mp4_path = mp4_path]]
    /\ UNCHANGED <<records, nextId, dbConn, tempFiles, batch>>

\* create_gif_preview
RaceGif(p) ==
    /\ last.op = "race"
    /\ last.run[p].pc = "gif"
    /\ \E gif_path \in {create_gif_preview(last.run[p].video_path, last.run[p].title, RaceEnv(tempFiles, last.run[p].video_path))} :
         /\ dirs' = dirs \cup (IF gif_path # "" THEN {RACE_USER \o "/previews/" \o gif_path} ELSE {})
         /\ last' = [last EXCEPT !.run[p] = [@ EXCEPT !.pc = "thumb", !.gif_path = gif_path]]
    /\ UNCHANGED <<records, nextId, dbConn, tempFiles, batch>>

\* "Move thumbnail": os.rename raises when the file is not there
RaceThumb(p) ==
    /\ last.op = "race"
    /\ last.run[p].pc = "thumb"
    /\ IF last.run[p].thumbnail_path = ""
       THEN /\ UNCHANGED <<tempFiles, dirs>>
            /\ last' = [last EXCEPT !.run[p].pc = "cleanup"]
       ELSE IF last.run[p].thumbnail_path \notin FileNames(tempFiles)
       THEN /\ UNCHANGED <<tempFiles, dirs>>
            /\ last' = [last EXCEPT !.run[p] = Finished(@, "raised")]
       ELSE /\ tempFiles' = Without(tempFiles, last.run[p].thumbnail_path)
            /\ dirs' = dirs \cup {InThumbnails(RACE_USER, last.run[p].thumbnail_path)}
            /\ last' = [last EXCEPT !.run[p].pc = "cleanup"]
    /\ UNCHANGED <<records, nextId, dbConn, batch>>

\* "Clean up" and the test of the preview paths
RaceCleanup(p) ==
    /\ last.op = "race"
    /\ last.run[p].pc = "cleanup"
    /\ tempFiles' = cleanup_video(tempFiles, last.run[p].source, last.run[p].video_path)
    /\ last' = [last EXCEPT !.run[p] =
                   IF @.mp4_path = "" /\ @.gif_path = "" THEN Finished(@, "None")
                   ELSE [@ EXCEPT !.pc = "save"]]
    /\ UNCHANGED <<records, nextId, dbConn, dirs, batch>>

\* the video_info an execution saves
RaceInfo(run, url) ==
    [user |-> RACE_USER, url |-> url, source |-> run.source, title |-> run.title,
     thumb_path |-> IF run.thumbnail_path # "" THEN InThumbnails(RACE_USER, run.thumbnail_path) ELSE "",
     vid_preview_path |-> RACE_USER \o "/previews/" \o (IF run.mp4_path # "" THEN run.mp4_path ELSE run.gif_path),
     upload_year |-> run.upload_year, content_hash |-> run.content_hash,
     preview_type |-> IF run.mp4_path # "" THEN "mp4" ELSE "gif"]

\* save_to_database and the return of the record
RaceSave(p) ==
    /\ last.op = "race"
    /\ last.run[p].pc = "save"
    /\ \E saved \in {save_to_database(records, nextId, dbConn, "ok", RaceInfo(last.run[p], last.url))} :
         /\ records' = saved.records
         /\ nextId' = saved.nextId
         /\ last' = [last EXCEPT !.run[p] = [Finished(@, "record") EXCEPT !.row_id = saved.id]]
    /\ UNCHANGED <<dbConn, dirs, tempFiles, batch>>

RaceStep(p) ==
    \/ RaceFetch(p)
    \/ RaceHash(p)
    \/ RaceDedup(p)
    \/ RaceMp4(p)
    \/ RaceGif(p)
    \/ RaceThumb(p)
    \/ RaceCleanup(p)
    \/ RaceSave(p)

NextRace == \E p \in Runs : RaceStep(p)

SpecRace == InitRace /\ [][NextRace]_vars

\* both executions have ended, and both passed the duplicate check: neither
\* had saved when the other asked
BothPassed ==
    /\ last.op = "race"
    /\ \A p \in Runs : last.run[p].pc = "done" /\ last.run[p].passed

\* C29: when two executions for one locator both pass the duplicate check
\* before either saves, both end with a record; the table never holds more
\* than one record of the locator, and in the end it holds that of the
\* execution that saved last.
C29_ConcurrentIngestion ==
    last.op = "race" =>
        /\ Cardinality({r \in records : r.url = last.url}) <= 1
        /\ BothPassed =>
              /\ \A p \in Runs : last.run[p].outcome = "record"
              /\ \E r \in records :
                    /\ r.url = last.url
                    /\ \A p \in Runs : r.id >= last.run[p].row_id
                    /\ \E p \in Runs : r.id = last.run[p].row_id

----------------------------------------------------------------------------
(* youtube_url_checker.check_youtube_video_accessible, step by step.  A     *)
(* behaviour of SpecChecker is a sequence of checks of locators.            *)

\* how requests.head ends: with a status code, with a RequestException, or
\* with another exception
HeadAnswers == {"200", "404", "503", "RequestException", "Exception"}

\* how YouTube(url) ends
YouTubeAnswers == {"ok", "Exception"}

\* how yt.check_availability() and the read of yt.title end: "age" and
\* "content" are exceptions whose text holds 'age restricted' and 'content
\* check'
AvailabilityAnswers == {"ok", "VideoUnavailable", "VideoPrivate", "LiveStreamError", "age", "content", "Exception"}

TitleAnswers == {"ok", "age", "Exception"}

CheckAnswers ==
    [head : HeadAnswers, youtube : YouTubeAnswers,
     availability : AvailabilityAnswers, title : TitleAnswers]

\* the answer of the check, the requests it made in order, and whether an
\* exception left it
Checked(accessible, message, requests, raised) ==
    [accessible |-> accessible, message |-> message, requests |-> requests, raised |-> raised]

\* the handlers of lines 79-105 for an exception of the given kind
check_handlers(kind, requests) ==
    CASE kind = "RequestException" -> Checked(FALSE, "Connection failed", requests, FALSE)
      [] kind = "VideoUnavailable" -> Checked(FALSE, "Video unavailable (deleted or private)", requests, FALSE)
      [] kind = "VideoPrivate" -> Checked(FALSE, "Video is private", requests, FALSE)
      [] kind = "LiveStreamError" -> Checked(FALSE, "Live stream is not accessible", requests, FALSE)
      [] kind = "age" -> Checked(FALSE, "Age-restricted content (login required)", requests, FALSE)
      [] kind = "content" -> Checked(FALSE, "Content violation restriction", requests, FALSE)
      [] OTHER -> Checked(FALSE, "Error accessing video", requests, FALSE)

\* the check asking the provider before it looks at the status of the HEAD
\* request
check_accessible_provider_first(url, answers) ==
    IF ~is_valid_youtube_url(url)
    THEN Checked(FALSE, "Invalid YouTube URL format", <<>>, FALSE)
    ELSE IF answers.head \in {"RequestException", "Exception"}
    THEN check_handlers(answers.head, <<"head">>)
    ELSE IF answers.youtube # "ok"
    THEN check_handlers(answers.youtube, <<"head", "YouTube">>)
    ELSE IF answers.availability # "ok"
    THEN check_handlers(answers.availability, <<"head", "YouTube", "check_availability">>)
    ELSE IF answers.head # "200"
    THEN Checked(FALSE, "HTTP Error " \o answers.head, <<"head", "YouTube", "check_availability">>, FALSE)
    ELSE IF answers.title # "ok"
    THEN check_handlers(answers.title, <<"head", "YouTube", "check_availability", "title">>)
    ELSE Checked(TRUE, "Video is accessible", <<"head", "YouTube", "check_availability", "title">>, FALSE)

\* check_youtube_video_accessible
check_accessible(url, answers) ==
    IF ~is_valid_youtube_url(url)
    THEN Checked(FALSE, "Invalid YouTube URL format", <<>>, FALSE)
    ELSE IF answers.head \in {"RequestException", "Exception"}
    THEN check_handlers(answers.head, <<"head">>)
    ELSE IF answers.head # "200"
    THEN Checked(FALSE, "HTTP Error " \o answers.head, <<"head">>, FALSE)
    ELSE IF answers.youtube # "ok"
    THEN check_handlers(answers.youtube, <<"head", "YouTube">>)
    ELSE IF answers.availability # "ok"
    THEN check_handlers(answers.availability, <<"head", "YouTube", "check_availability">>)
    ELSE IF answers.title # "ok"
    THEN check_handlers(answers.title, <<"head", "YouTube", "check_availability", "title">>)
    ELSE Checked(TRUE, "Video is accessible", <<"head", "YouTube", "check_availability", "title">>, FALSE)

\* YouTubeSource.is_valid_url: the boolean of the check ("raised" when an
\* exception leaves it)
YouTubeSource_is_valid_url(url, answers) ==
    IF check_accessible(url, answers).raised THEN "raised"
    ELSE IF check_accessible(url, answers).accessible THEN "True" ELSE "False"

\* one call of YouTubeSource.is_valid_url
CheckAccessible ==
    /\ batch.status = "idle"
    /\ last.op = "none"
    /\ \E url \in AllLocators, answers \in CheckAnswers :
         \E out \in {check_accessible(url, answers)} :
            last' = [op |-> "check_youtube_video_accessible", url |-> url,
                     answers |-> answers, accessible |-> out.accessible,
                     message |-> out.message, requests |-> out.requests,
                     raised |-> out.raised,
                     is_valid |-> YouTubeSource_is_valid_url(url, answers)]
    /\ UNCHANGED <<records, nextId, dbConn, dirs, tempFiles, batch>>

NextChecker == CheckAccessible \/ Resume

SpecChecker == Init /\ [][NextChecker]_vars

\* C30: the check answers (False, "Invalid YouTube URL format") without a
\* request when the locator does not match the YouTube patterns, and
\* (False, "HTTP Error <status>") without asking the provider when the HEAD
\* request does not answer 200; it answers True only if the format, the HEAD
\* request, the provider's availability check and the read of the title all
\* succeeded; whatever step fails, it answers False with a reason and does
\* not raise, so that is_valid_url is a plain boolean.
C30_YouTubeValidation ==
    last.op = "check_youtube_video_accessible" =>
        /\ ~is_valid_youtube_url(last.url) =>
              /\ ~last.accessible /\ last.message = "Invalid YouTube URL format"
              /\ last.requests = <<>>
        /\ (is_valid_youtube_url(last.url) /\ last.answers.head \in {"404", "503"}) =>
              /\ ~last.accessible /\ last.message = "HTTP Error " \o last.answers.head
              /\ last.requests = <<"head">>
        /\ last.accessible =>
              /\ is_valid_youtube_url(last.url)
              /\ last.answers.head = "200" /\ last.answers.youtube = "ok"
              /\ last.answers.availability = "ok" /\ last.answers.title = "ok"
              /\ last.requests = <<"head", "YouTube", "check_availability", "title">>
        /\ ~last.raised
        /\ ~last.accessible => last.message # ""
        /\ last.is_valid \in {"True", "False"}
        /\ last.is_valid = "True" <=> last.accessible

C30_Witness ==
    /\ last.op = "check_youtube_video_accessible"
    /\ is_valid_youtube_url(last.url)
    /\ last.answers.head = "200"
    /\ last.answers.youtube = "ok"
    /\ last.answers.availability = "ok"
    /\ last.answers.title = "age"
    /\ ~last.accessible
    /\ last.message = "Age-restricted content (login required)"
    /\ last.is_valid = "False"

----------------------------------------------------------------------------
(* VideoSource.generate_content_hash (backend/src/base_source.py): the      *)
(* digest of what one read of at most 1 MiB returns.  A file is a sequence  *)
(* of bytes; the read limit is scaled to ChunkLimit bytes and the 128-bit   *)
(* digest to DigestBits bits, printed as hexadecimal digits.  A Python      *)
(* string is here the sequence of its characters, "" being << >>.           *)

\* f.read(1024 * 1024) returns at most ChunkLimit bytes
ChunkLimit == 2

\* files hold up to MaxFileLen bytes
MaxFileLen == 3

\* width of the digest
DigestBits == 8

Bytes == {0, 1}

FileContents == UNION {[1..n -> Bytes] : n \in 0..MaxFileLen}

\* what open() and read() do on the path: succeed, or raise
FileModes == {"ok", "open_raises", "read_raises"}

HashPaths == {"a.mp4", "b.mp4"}

HexDigits == <<"0", "1", "2", "3", "4", "5", "6", "7", "8", "9", "a", "b", "c", "d", "e", "f">>

\* f.read(n): the first n bytes, or all of them when there are fewer
read(content, n) == SubSeq(content, 1, Min(n, Len(content)))

\* hasher.update(chunk) on a fresh hasher: a digest of DigestBits bits that
\* takes in every byte of the chunk and its place
RECURSIVE md5(_)
md5(chunk) ==
    IF chunk = <<>> THEN 1
    ELSE (md5(SubSeq(chunk, 1, Len(chunk) - 1)) * 3 + chunk[Len(chunk)] + 1) % (2 ^ DigestBits)

\* hasher.hexdigest(): the digest in hexadecimal, two digits for every byte
hexdigest(digest) == <<HexDigits[(digest \div 16) + 1], HexDigits[(digest % 16) + 1]>>

\* the digest of the whole file, whatever its size
content_hash_whole_file(file) ==
    IF file.mode # "ok" THEN <<>>
    ELSE hexdigest(md5(file.content))

\* open() or f.read() raising is caught and "" returned
VideoSource_generate_content_hash(file) ==
    IF file.mode = "open_raises" THEN <<>>
    ELSE IF file.mode = "read_raises" THEN <<>>
    ELSE hexdigest(md5(read(file.content, ChunkLimit)))

HashState(op, path, files, returned) ==
    [op |-> op, path |-> path, files |-> files, returned |-> returned]

InitHash ==
    /\ records = {}
    /\ nextId = 0
    /\ dbConn = TRUE
    /\ dirs = {}
    /\ tempFiles = {}
    /\ batch = NoBatch
    /\ \E files \in [HashPaths -> [content : FileContents, mode : FileModes]] :
         last = HashState("files", "", files, [p \in HashPaths |-> <<>>])

\* one call of generate_content_hash(path); returned keeps the values of
\* the last two calls made on the path since the file was last written
GenerateContentHash ==
    /\ last.op \in {"files", "generate_content_hash", "write"}
    /\ \E path \in HashPaths :
         \E out \in {VideoSource_generate_content_hash(last.files[path])} :
            last' = HashState("generate_content_hash", path, last.files,
                        [last.returned EXCEPT ![path] =
                            IF Len(last.returned[path]) < 2 THEN Append(last.returned[path], out)
                            ELSE <<last.returned[path][2], out>>])
    /\ UNCHANGED <<records, nextId, dbConn, dirs, tempFiles, batch>>

\* another program writes the file anew
WriteVideoFile ==
    /\ last.op \in {"files", "generate_content_hash", "write"}
    /\ \E path \in HashPaths, content \in FileContents :
         /\ content # last.files[path].content
         /\ last' = HashState("write", path,
                        [last.files EXCEPT ![path].content = content],
                        [last.returned EXCEPT ![path] = <<>>])
    /\ UNCHANGED <<records, nextId, dbConn, dirs, tempFiles, batch>>

NextHash == GenerateContentHash \/ WriteVideoFile

SpecHash == InitHash /\ [][NextHash]_vars

\* the values the calls on a path returned
Hashed(path) == Range(last.returned[path])

HashCalls == last.op \in {"files", "generate_content_hash", "write"}

\* C31: two readable files with the same first ChunkLimit bytes have the
\* same, non-empty fingerprint, also when they differ after that prefix;
\* every call on an unchanged file returns the same value; a file that
\* cannot be opened or read has the empty string as its fingerprint
C31_FingerprintOfPrefix ==
    HashCalls =>
        \A p \in HashPaths, q \in HashPaths :
            /\ Cardinality(Hashed(p)) <= 1
            /\ last.files[p].mode # "ok" => Hashed(p) \subseteq {<<>>}
            /\ last.files[p].mode = "ok" => <<>> \notin Hashed(p)
            /\ /\ last.files[p].mode = "ok"
               /\ last.files[q].mode = "ok"
               /\ read(last.files[p].content, ChunkLimit) = read(last.files[q].content, ChunkLimit)
               => \A x \in Hashed(p), y \in Hashed(q) : x = y

C31_Witness ==
    /\ HashCalls
    /\ Len(last.returned["a.mp4"]) = 2
    /\ Len(last.returned["b.mp4"]) = 2
    /\ last.files["a.mp4"].mode = "ok"
    /\ last.files["b.mp4"].mode = "ok"
    /\ Len(last.files["a.mp4"].content) > ChunkLimit
    /\ last.files["a.mp4"].content # last.files["b.mp4"].content
    /\ read(last.files["a.mp4"].content, ChunkLimit) = read(last.files["b.mp4"].content, ChunkLimit)
    /\ last.returned["a.mp4"] = last.returned["b.mp4"]

----------------------------------------------------------------------------
(* DatabaseHelper.query_database and get_videos_by_user (src/db_helper.py). *)
(* An optional argument is [given, value]: not given is Python's None.  The *)
(* rows come back in no stated order and are a set here.                    *)

NotGiven(value) == [given |-> FALSE, value |-> value]

Given(value) == [given |-> TRUE, value |-> value]

UserFilters == {NotGiven(""), Given(""), Given("alice"), Given("bob")}

YearFilters == {NotGiven(0), Given(0), Given(2021), Given(2022)}

SourceFilters == {NotGiven(""), Given(""), Given("youtube"), Given("local")}

\* video_info dictionaries of the stored videos
QueryInfos ==
    {[NoInfo EXCEPT !.user = user, !.url = url, !.source = source,
                    !.title = "Demo", !.upload_year = upload_year,
                    !.vid_preview_path = user \o "/previews/Demo_preview.mp4",
                    !.preview_type = "mp4"]
       : url \in {YT1, DUAL}, user \in {"alice", "bob"}, source \in {"youtube", "local"}, upload_year \in {2021, 2022}}

\* "if user:" of a string argument, "if year:" of an integer one
TruthyText(arg) == arg.given /\ arg.value # ""

TruthyInt(arg) == arg.given /\ arg.value # 0

\* DatabaseHelper.query_database: [] without a connection; SELECT * FROM
\* videos WHERE 1=1 with one AND for every argument that is true; an
\* exception of the statement is not caught
query_database(recs, conn, store, user, year, source) ==
    IF ~conn THEN [rows |-> {}, raised |-> FALSE]
    ELSE IF store = "broken" THEN [rows |-> {}, raised |-> TRUE]
    ELSE [rows |-> {r \in recs : /\ TruthyText(user) => r.user = user.value
                                 /\ TruthyInt(year) => r.upload_year = year.value
                                 /\ TruthyText(source) => r.source = source.value},
          raised |-> FALSE]

\* DatabaseHelper.get_videos_by_user
get_videos_by_user(recs, conn, store, username) ==
    query_database(recs, conn, store, Given(username), NotGiven(0), NotGiven(""))

Queried(op, user, year, source, db, out) ==
    [op |-> op, user |-> user, year |-> year, source |-> source, db |-> db,
     rows |-> out.rows, raised |-> out.raised]

\* one save_to_database of a video's dictionary
SaveVideoInfo ==
    /\ last.op = "none"
    /\ nextId < MaxId
    /\ \E video_info \in QueryInfos :
         \E saved \in {save_to_database(records, nextId, dbConn, "ok", video_info)} :
            /\ records' = saved.records
            /\ nextId' = saved.nextId
    /\ UNCHANGED <<dbConn, dirs, tempFiles, last, batch>>

QueryDatabase ==
    /\ last.op = "none"
    /\ \E user \in UserFilters, year \in YearFilters, source \in SourceFilters, store \in {"ok", "broken"} :
         \E out \in {query_database(records, dbConn, store, user, year, source)} :
            last' = Queried("query_database", user, year, source, DbSeen(dbConn, store, FALSE), out)
    /\ UNCHANGED <<records, nextId, dbConn, dirs, tempFiles, batch>>

GetVideosByUser ==
    /\ last.op = "none"
    /\ \E username \in {"", "alice", "bob"}, store \in {"ok", "broken"} :
         \E out \in {get_videos_by_user(records, dbConn, store, username)} :
            last' = Queried("get_videos_by_user", Given(username), NotGiven(0), NotGiven(""), DbSeen(dbConn, store, FALSE), out)
    /\ UNCHANGED <<records, nextId, dbConn, dirs, tempFiles, batch>>

NextQuery == SaveVideoInfo \/ QueryDatabase \/ GetVideosByUser \/ Close \/ Resume

SpecQuery == Init /\ [][NextQuery]_vars

\* a query has been answered by a working database
Answered == last.op \in {"query_database", "get_videos_by_user"} /\ last.db = "ok"

\* the stored records that satisfy every supplied filter
Satisfying == {r \in records : /\ last.user.given => r.user = last.user.value
                               /\ last.year.given => r.upload_year = last.year.value
                               /\ last.source.given => r.source = last.source.value}

\* C32: a query on a working database returns exactly the stored records
\* that satisfy every supplied filter, all records when none is supplied;
\* get_videos_by_user(u) returns what query_database(user=u) returns
C32_QueryFiltering ==
    Answered =>
        /\ ~last.raised
        /\ last.rows = Satisfying
        /\ last.op = "get_videos_by_user" =>
               last.rows = query_database(records, dbConn, "ok", last.user, NotGiven(0), NotGiven("")).rows

----------------------------------------------------------------------------
(* The ids of table videos: save_to_database, delete_video and              *)
(* get_video_by_id called in any order.  The caller keeps the ids the saves *)
(* returned, and which of the saved dictionaries were neither deleted nor   *)
(* saved again since.                                                       *)

\* DatabaseHelper.get_video_by_id: the row as a dictionary; NoInfo with id 0
\* stands for None (no connection, no such row, or an exception)
get_video_by_id(recs, conn, store, video_id) ==
    IF ~conn THEN Row(0, NoInfo)
    ELSE IF store = "broken" THEN Row(0, NoInfo)
    ELSE IF \E r \in recs : r.id = video_id THEN CHOOSE r \in recs : r.id = video_id
    ELSE Row(0, NoInfo)

IdCalls(op, issued, live, row_id, row) ==
    [op |-> op, issued |-> issued, live |-> live, row_id |-> row_id, row |-> row]

InitIds ==
    /\ records = {}
    /\ nextId = 0
    /\ dbConn = TRUE
    /\ dirs = {}
    /\ tempFiles = {}
    /\ batch = NoBatch
    /\ last = IdCalls("new", <<>>, {}, 0, Row(0, NoInfo))

IdOps == {"new", "save_to_database", "delete_video", "get_video_by_id"}

SaveRecord ==
    /\ last.op \in IdOps
    /\ nextId < MaxId
    /\ \E video_info \in SaveInputs, store \in StoreModes :
         \E saved \in {save_to_database(records, nextId, dbConn, store, video_info)} :
            /\ records' = saved.records
            /\ nextId' = saved.nextId
            /\ last' = IF saved.id = 0
                       THEN IdCalls("save_to_database", last.issued, last.live, 0, Row(0, NoInfo))
                       ELSE IdCalls("save_to_database", Append(last.issued, saved.id),
                                    {l \in last.live : l.url # video_info.url} \cup {Row(saved.id, video_info)},
                                    saved.id, Row(saved.id, video_info))
    /\ UNCHANGED <<dbConn, dirs, tempFiles, batch>>

DeleteRecord ==
    /\ last.op \in IdOps
    /\ \E video_id \in 1..MaxId, store \in StoreModes :
         \E deleted \in {delete_video(records, dbConn, store, video_id)} :
            /\ records' = deleted.records
            /\ last' = IdCalls("delete_video", last.issued,
                               IF deleted.ok THEN {l \in last.live : l.id # video_id} ELSE last.live,
                               video_id, Row(0, NoInfo))
    /\ UNCHANGED <<nextId, dbConn, dirs, tempFiles, batch>>

GetVideoById ==
    /\ last.op \in IdOps
    /\ \E video_id \in 1..MaxId, store \in {"ok", "broken"} :
         \E row \in {get_video_by_id(records, dbConn, store, video_id)} :
            last' = IdCalls("get_video_by_id", last.issued, last.live, video_id, row)
    /\ UNCHANGED <<records, nextId, dbConn, dirs, tempFiles, batch>>

NextIds == SaveRecord \/ DeleteRecord \/ GetVideoById

SpecIds == InitIds /\ [][NextIds]_vars

\* C33: every successful save returns an id greater than every id returned
\* before it, so no id is returned twice; and get_video_by_id of a returned
\* id gives the saved record for as long as it was not deleted and its
\* locator was not saved again
C33_MonotonicIds ==
    last.op \in IdOps =>
        /\ \A i \in DOMAIN last.issued, j \in DOMAIN last.issued :
               i < j => last.issued[i] < last.issued[j]
        /\ \A l \in last.live : get_video_by_id(records, dbConn, "ok", l.id) = l
        /\ last.op = "save_to_database" /\ last.row_id # 0 =>
               /\ last.row \in records
               /\ \A r \in records : r.id <= last.row_id

\* four saves have returned ids 1 to 4; two of the records were replaced or
\* deleted since, and get_video_by_id(4) returns the record of the last save
C33_Witness ==
    /\ last.op = "get_video_by_id"
    /\ Len(last.issued) = 4
    /\ Cardinality(last.live) = 2
    /\ Cardinality(records) = 2
    /\ last.row_id = 4
    /\ last.row \in last.live
    /\ \E l \in last.live : l.id = 2

----------------------------------------------------------------------------
(* The user's own video files under process_url calls on local locators.   *)
(* A file is "intact" until something writes to it; opening it for writing  *)
(* leaves it "truncated".                                                   *)

LocalLocators == {LOCAL1, FILE1}

LOCAL_USER == "alice"

\* LocalFileSource.download_video, lines 135-155, as the file at file_path
\* meets them: when output_file_path is a link to this very file it is not
\* removed, os.symlink raises FileExistsError, and the copy opens the link
\* with 'wb', which empties the file the link points to before it is read
local_download_video_original(url, files, env, original) ==
    IF ~env.fetch THEN original
    ELSE IF \E f \in files : f.name = VideoName(Title("local", url)) /\ f.link /\ f.target = url
         THEN "truncated"
    ELSE original

\* what a process_url call does to the file behind its locator
process_url_original(url, username, files, env, original) ==
    IF username = "" THEN original
    ELSE IF FirstValid(url, env) = 0 THEN original
    ELSE IF video_sources[FirstValid(url, env)] # "local" THEN original
    ELSE local_download_video_original(url, files, env, original)

LocalCalls(originals, call) == [op |-> "local", originals |-> originals, call |-> call]

InitLocal ==
    /\ records = {}
    /\ nextId = 0
    /\ dbConn = TRUE
    /\ dirs = {}
    /\ tempFiles = {}
    /\ batch = NoBatch
    /\ last = LocalCalls([url \in LocalLocators |-> "intact"], NoCall)

\* the encoders and the frame grab get nothing out of an emptied file
DecodesNothing(e) == ~e.thumb /\ ~e.mp4 /\ ~e.gif

\* the answers of a call on a working database and a file that can be read
LocalEnvs(url) == {e \in EnvsOf[url] : e.store = "ok" /\ (e.fetch => e.readable)}

\* one call of process_url with a local locator
ProcessUrlLocal ==
    /\ last.op = "local"
    /\ nextId < MaxId
    /\ \E url \in LocalLocators :
         \E env \in LocalEnvs(url) :
            \E original \in {process_url_original(url, LOCAL_USER, tempFiles, env, last.originals[url])} :
               \E out \in {process_url(State, url, LOCAL_USER, env)} :
                  /\ original = "truncated" => DecodesNothing(env)
                  /\ records' = out.records
                  /\ nextId' = out.nextId
                  /\ dirs' = out.dirs
                  /\ tempFiles' = out.files
                  /\ last' = LocalCalls([last.originals EXCEPT ![url] = original], out.call)
    /\ UNCHANGED <<dbConn, batch>>

NextLocal == ProcessUrlLocal

SpecLocal == InitLocal /\ [][NextLocal]_vars

\* C34: whatever process_url calls were made on local locators, every
\* original video file is still there with the content it had
C34_OriginalUntouched ==
    last.op = "local" => \A url \in LocalLocators : last.originals[url] = "intact"

----------------------------------------------------------------------------
(* The store across one process_url call *)

----------------------------------------------------------------------------
(* Two videos whose titles give the same file name: the video behind YT2    *)
(* has another content and another title than the one behind YT1, and the   *)
(* characters that differ are not kept in file names.                       *)

TitleLocators == {YT1, YT2}

TITLE_USER == "alice"

\* one call of process_url with one of the two YouTube urls
ProcessUrlTitle ==
    /\ last.op = "none"
    /\ nextId < MaxId
    /\ \E url \in TitleLocators :
         \E env \in {e \in AllEnvs : Consumes(url, e)} :
            \E out \in {process_url(State, url, TITLE_USER, env)} :
               /\ records' = out.records
               /\ nextId' = out.nextId
               /\ dirs' = out.dirs
               /\ tempFiles' = out.files
               /\ last' = out.call
    /\ UNCHANGED <<dbConn, batch>>

NextTitle == ProcessUrlTitle \/ Resume

SpecTitle == Init /\ [][NextTitle]_vars

\* C36: records of one user with different locators name different preview
\* files
C36_DistinctPreviewFiles ==
    \A r1 \in records, r2 \in records :
        (r1.user = r2.user /\ r1.url # r2.url) => r1.vid_preview_path # r2.vid_preview_path

----------------------------------------------------------------------------
(* What a process_url call that returns None leaves on disk *)

\* C37: a process_url call that returns None (no source, fetch failure,
\* duplicate, both previews failed) adds no file to the user's thumbnails
\* directory and no entry to temp_videos
C37_NoRecordNoArtifact ==
    [][(last.op = "none" /\ last'.op = "process_url" /\ last'.outcome = "None") =>
           /\ (dirs' \ dirs) \subseteq UserDirs(last'.user)
           /\ tempFiles' \subseteq tempFiles]_vars

----------------------------------------------------------------------------
(* The clip inside the middle of the video *)

\* C38: when the video is longer than the requested duration and the safe
\* window has not collapsed (MaxStart > MinStart), then for every draw the
\* window starts no earlier than 0.2 of the video, ends no later than 0.8 of
\* it, and lasts exactly the requested duration
C38_MiddleOfVideo ==
    (Timed /\ last.video_duration > last.target_duration /\ MaxStart > MinStart) =>
        /\ 2 * last.video_duration <= 10 * last.start_time
        /\ 10 * (last.start_time + last.target_duration) <= 8 * last.video_duration
        /\ last.actual_duration = last.target_duration

\* a draw from the inside of the safe window of a video whose 0.2 and 0.8
\* marks fall between whole seconds
C38_Witness ==
    /\ Timed
    /\ last.video_duration > last.target_duration
    /\ MaxStart > MinStart
    /\ last.video_duration % 10 = 5
    /\ 0 < last.draw
    /\ last.draw < DrawSteps
    /\ MinStart < last.start_time
    /\ last.start_time < MaxStart
    /\ last.actual_duration = last.target_duration

----------------------------------------------------------------------------
(* The lines of a links file and the calls of process_url *)

\* the lines the loop of process_links_file has passed
LinesRead == SubSeq(batch.items, 1, Min(batch.pos - 1, Len(batch.items)))

\* C39: at every point of process_links_file's loop and at its return, the
\* locators handed to process_url are, in file order, exactly the lines read
\* so far that are not empty and begin with "http", "file://" or "/"; at the
\* return every line of the file has been read
C39_LinksFileFilterAndOrder ==
    (batch.kind = "process_links_file" /\ batch.entered) =>
        /\ batch.submitted = SelectSeq(LinesRead, LineAccepted)
        /\ batch.status = "returned" => batch.pos = Len(batch.items) + 1
        /\ batch.status = "returned" => batch.submitted = SelectSeq(batch.items, LineAccepted)

====
